---- MODULE Spec2Model ----
(***************************************************************************)
(* Verification model of the administrative scripts of                     *)
(* misc_domino_scripts.                                                    *)
(*                                                                         *)
(*   SpecUsage : download_daily_usage_reports_v2.py, the retrying          *)
(*               fetch-and-export flow (generate_daily_report and main).   *)
(*   SpecOrg   : manage_org_members.py, the batch membership reconciler    *)
(*               (DominoOrgManager.manage_members and main).               *)
(*   SpecTags  : apply_billing_tags.py, tagging of untagged projects.      *)
(*   SpecArch  : archive_environments.py, archiving and unarchiving.       *)
(*   SpecInv   : submit_inventory_jobs.py, one job per environment.        *)
(*   SpecApps  : manage_apps.py, stopping apps and starting them again.    *)
(*   SpecGbp   : create_gbp_and_schjob.py, credential, project and job.    *)
(*   SpecModels: manage_model_api.py and manage_model_api_by_proejctid.py. *)
(*                                                                         *)
(* Each script is a sequential program; its model is a state machine whose *)
(* steps are the points where the program talks to its environment (the    *)
(* HTTP service, the file system, the console).  The environment's answers *)
(* are nondeterministic.                                                   *)
(***************************************************************************)
EXTENDS Integers, Sequences, FiniteSets, TLC

(***************************************************************************)
(* Bounds of the model.                                                    *)
(***************************************************************************)
\* calendar days are numbered 1..MaxDay
MaxDay == 3
\* --max-retries ranges over 0..MaxRetries
MaxRetries == 3

\* values of --retry-delay (seconds); 30 is the default of the script
RetryDelays == {5, 30}
\* the username file holds at most MaxLines lines
MaxLines == 2
\* the reconciler is run at most MaxRuns times in a row against the same service
MaxRuns == 2

Days == 1..MaxDay

\* what one POST to /admin/generateUsageReport can lead to:
\*   "transport" requests.post raises RequestException
\*   "status"    a response whose .ok is False
\*   "ok"        a response whose .ok is True
Outcomes == {"transport", "status", "ok"}
Failures == {"transport", "status"}

VARIABLES
    \* ---- download_daily_usage_reports_v2.py ----
    usage_pc,       \* position of the script
    dates_valid,    \* whether both --start-date and --end-date parse (strptime)
    start_dt,       \* parsed --start-date (day number)
    end_dt,         \* parsed --end-date (day number)
    max_retries,    \* --max-retries
    retry_delay,    \* --retry-delay
    current_dt,     \* main's loop variable
    service,        \* what the service answers to the k-th request of the current call
    attempt,        \* generate_daily_report's local `attempt`
    response,       \* generate_daily_report's local `response`: "unbound", "ok", "not_ok"
    req_count,      \* requests.post calls issued by the current call
    sleeps,         \* durations of the time.sleep calls of the current call
    csv_ok,         \* whether pd.read_csv accepts the body the service sends for this date
    xlsx_ok,        \* whether df.to_excel can write the file of this date
    calls,          \* report_date of every generate_daily_report call so far, in order
    results,        \* how each call ended: "True", "False" or "raised"
    http_requests,  \* number of requests.post calls since the start of the process
    files,          \* days whose .xlsx file has been written
    usage_exit      \* exit status of the process, -1 while it runs

usageVars == <<usage_pc, dates_valid, start_dt, end_dt, max_retries, retry_delay,
               current_dt, service, attempt, response, req_count, sleeps,
               csv_ok, xlsx_ok, calls, results, http_requests, files, usage_exit>>

VARIABLES
    \* ---- manage_org_members.py: command line and environment ----
    org_pc,             \* position of the script
    run,                \* which run of the script this is (1..MaxRuns)
    prev_exit,          \* exit status of the previous run, -1 in the first run
    prev_mutations,     \* number of mutating requests of the previous run
    api_token,          \* whether --api-token or DOMINO_API_TOKEN is set
    action,             \* --action: "add" or "remove"
    dry_run,            \* --dry-run
    skip_confirmation,  \* --yes
    file_exists,        \* whether the --user-file exists
    file_lines,         \* the lines of the --user-file
    remote_users,       \* the service's user list (records userName, id)
    remote_members,     \* the service's members of the organization (user ids)
    \* ---- manage_org_members.py: manage_members ----
    org_outcome,        \* how the organization fetch of this run ended, "none" before
    users_outcome,      \* how the user fetch of this run ended, "none" before
    usernames,          \* read_usernames_from_file's result
    current_members,    \* members of the organization as fetched
    user_ids_to_process,\* resolved (username, user id) pairs
    missing_users,      \* usernames that did not resolve
    users_to_process,   \* resolved pairs that need the change
    next_user,          \* position of the apply loop in users_to_process
    success_count,
    failure_count,
    confirmed,          \* "not_asked", "yes" or "no": the answer at the prompt
    answer,             \* what was typed at the prompt, "none" before
    org_reply,          \* names of the organizations the organization fetch returned
    interrupted,        \* whether KeyboardInterrupt was raised in this run
    gets,               \* the read requests of this run, in order
    mutations,          \* the mutating requests of this run, in order
    org_exit            \* exit status of the process, -1 while it runs

prevRun == <<prev_exit, prev_mutations>>

orgInputs == <<api_token, action, dry_run, skip_confirmation, file_exists, file_lines,
               remote_users>>

orgLocals == <<org_outcome, users_outcome, usernames, current_members,
               user_ids_to_process, missing_users, users_to_process, next_user,
               success_count, failure_count, confirmed, answer, org_reply, interrupted,
               gets, mutations>>

orgVars == <<org_pc, run, prevRun, orgInputs, remote_members, orgLocals, org_exit>>

VARIABLES
    \* ---- apply_billing_tags.py ----
    tags_pc,            \* position of the script
    args_apply,         \* --apply (TRUE) or --dry-run (FALSE), one of them is required
    org_members,        \* userIds of the organization's members, None if not found
    projects_of,        \* service: the projects each member owns
    billing_tags,       \* service: the projects that have a billing tag
    member_idx,         \* position of `for uid in member_ids`
    project_list,       \* main's local of that name
    proj_idx,           \* position of `for proj in project_list`
    current_tag,        \* main's local of that name
    tag_requests        \* the requests issued, in order

tagsVars == <<tags_pc, args_apply, org_members, projects_of, billing_tags, member_idx,
              project_list, proj_idx, current_tag, tag_requests>>

VARIABLES
    \* ---- archive_environments.py ----
    arch_pc,            \* position of the script
    args_dry_run,       \* --dry-run
    args_archive,       \* --archive
    args_unarchive,     \* --unarchive
    domino_url,         \* whether DOMINO_API_PROXY is set
    mongo_credentials,  \* whether MONGODB_USERNAME and MONGODB_PASSWORD are set
    env_file_exists,    \* whether the file of --file can be opened
    environments,       \* the environment ids read from the file
    env_idx,            \* position of `for env_id in environments`
    env_name,           \* main's local of that name
    env_ops             \* the requests and database operations issued, in order

archVars == <<arch_pc, args_dry_run, args_archive, args_unarchive, domino_url,
              mongo_credentials, env_file_exists, environments, env_idx, env_name, env_ops>>

VARIABLES
    \* ---- submit_inventory_jobs.py ----
    inv_pc,             \* position of the script
    restrict_given,     \* whether --restrict is on the command line
    job_limit,          \* its value (args.restrict), 0 when not given
    inv_env_set,        \* whether DOMINO_URL, DOMINO_USER_API_KEY, DOMINO_PROJECT_ID are set
    listed_envs,        \* service: the ids of /v4/environments/self, in API order
    filtered_envs,      \* the module's list of that name (the ids)
    job_idx,            \* position of `for env in filtered_envs`
    job_requests,       \* the job-start requests issued, in order
    inv_exit            \* exit status, -1 while running

invVars == <<inv_pc, restrict_given, job_limit, inv_env_set, listed_envs, filtered_envs,
             job_idx, job_requests, inv_exit>>

VARIABLES
    \* ---- manage_apps.py ----
    apps_pc,            \* position of the script
    apps_run,           \* which run of the script this is (1..MaxRuns)
    api_key,            \* whether DOMINO_USER_API_KEY is set
    opt_list,           \* --list
    opt_stop,           \* --stop
    opt_dry_run,        \* --dry-run
    opt_start_all_stopped, \* --start-all-stopped
    remote_apps,        \* service: the apps of /v4/modelProducts, in API order
    stopped_csv,        \* file system: the rows of the file of --stopped-output
    running_apps,       \* main's local of that name
    confirmation,       \* what the user typed at the prompt, "none" before
    stopped_apps,       \* stop_apps' local of that name
    csv_written,        \* whether this run wrote the stopped-apps file
    app_idx,            \* position of the loop of stop_apps or start_stopped_apps
    rows_read,          \* the rows read by read_stopped_apps_csv
    app_requests        \* the stop and start requests issued in this run, in order

appsVars == <<apps_pc, apps_run, api_key, opt_list, opt_stop, opt_dry_run,
              opt_start_all_stopped, remote_apps, stopped_csv, running_apps, confirmation,
              stopped_apps, csv_written, app_idx, rows_read, app_requests>>

VARIABLES
    \* ---- create_gbp_and_schjob.py ----
    gbp_pc,             \* position of the script
    gbp_api_key,        \* whether DOMINO_USER_API_KEY is set
    args_username,      \* the username argument
    gbp_user_id,        \* main's local user_id, None before
    gbp_git_provider_id, \* main's local git_provider_id, None before
    gbp_project_id,     \* main's local project_id, None before
    gbp_requests,       \* the requests issued, in order
    gbp_created,        \* service: the resources the requests created
    gbp_exit            \* exit status, -1 while running

gbpVars == <<gbp_pc, gbp_api_key, args_username, gbp_user_id, gbp_git_provider_id,
             gbp_project_id, gbp_requests, gbp_created, gbp_exit>>

VARIABLES
    \* ---- manage_model_api.py and manage_model_api_by_proejctid.py ----
    models_pc,          \* position of the script
    script,             \* which of the two scripts runs
    models_api_key,     \* whether DOMINO_USER_API_KEY is set
    operation,          \* the operation argument: show, start or stop
    args_project_id,    \* the project_id argument of manage_model_api_by_proejctid
    remote_models,      \* service: the models of each project, in API order
    projects,           \* the ids of the projects to handle
    project_idx,        \* position of `for project in projects`
    models,             \* main's local of that name
    model_idx,          \* position of `for model in models`
    fetched_models,     \* every model a fetch_models call returned, in order
    model_requests      \* the start and stop requests issued, in order

modelsVars == <<models_pc, script, models_api_key, operation, args_project_id,
                remote_models, projects, project_idx, models, model_idx, fetched_models,
                model_requests>>

vars == <<usageVars, orgVars, tagsVars, archVars, invVars, appsVars, gbpVars, modelsVars>>

notUsage == <<orgVars, tagsVars, archVars, invVars, appsVars, gbpVars, modelsVars>>
notOrg == <<usageVars, tagsVars, archVars, invVars, appsVars, gbpVars, modelsVars>>
notTags == <<usageVars, orgVars, archVars, invVars, appsVars, gbpVars, modelsVars>>
notArch == <<usageVars, orgVars, tagsVars, invVars, appsVars, gbpVars, modelsVars>>
notInv == <<usageVars, orgVars, tagsVars, archVars, appsVars, gbpVars, modelsVars>>
notApps == <<usageVars, orgVars, tagsVars, archVars, invVars, gbpVars, modelsVars>>
notGbp == <<usageVars, orgVars, tagsVars, archVars, invVars, appsVars, modelsVars>>
notModels == <<usageVars, orgVars, tagsVars, archVars, invVars, appsVars, gbpVars>>

(***************************************************************************)
(* Values of the other scripts' variables while one script is checked.     *)
(***************************************************************************)
OrgIdle ==
    /\ org_pc = "idle"
    /\ run = 1
    /\ prev_exit = -1
    /\ prev_mutations = 0
    /\ api_token = FALSE
    /\ action = "add"
    /\ dry_run = FALSE
    /\ skip_confirmation = FALSE
    /\ file_exists = FALSE
    /\ file_lines = <<>>
    /\ remote_users = <<>>
    /\ remote_members = {}
    /\ org_outcome = "none"
    /\ users_outcome = "none"
    /\ usernames = <<>>
    /\ current_members = {}
    /\ user_ids_to_process = <<>>
    /\ missing_users = <<>>
    /\ users_to_process = <<>>
    /\ next_user = 1
    /\ success_count = 0
    /\ failure_count = 0
    /\ confirmed = "not_asked"
    /\ answer = "none"
    /\ org_reply = <<>>
    /\ interrupted = FALSE
    /\ gets = <<>>
    /\ mutations = <<>>
    /\ org_exit = -1

TagsIdle ==
    /\ tags_pc = "idle"
    /\ args_apply = FALSE
    /\ org_members = <<>>
    /\ projects_of = <<>>
    /\ billing_tags = {}
    /\ member_idx = 1
    /\ project_list = <<>>
    /\ proj_idx = 1
    /\ current_tag = "None"
    /\ tag_requests = <<>>

ArchIdle ==
    /\ arch_pc = "idle"
    /\ args_dry_run = FALSE
    /\ args_archive = FALSE
    /\ args_unarchive = FALSE
    /\ domino_url = FALSE
    /\ mongo_credentials = FALSE
    /\ env_file_exists = FALSE
    /\ environments = <<>>
    /\ env_idx = 1
    /\ env_name = "None"
    /\ env_ops = <<>>

InvIdle ==
    /\ inv_pc = "idle"
    /\ restrict_given = FALSE
    /\ job_limit = 0
    /\ inv_env_set = FALSE
    /\ listed_envs = <<>>
    /\ filtered_envs = <<>>
    /\ job_idx = 1
    /\ job_requests = <<>>
    /\ inv_exit = -1

AppsIdle ==
    /\ apps_pc = "idle"
    /\ apps_run = 1
    /\ api_key = FALSE
    /\ opt_list = FALSE
    /\ opt_stop = FALSE
    /\ opt_dry_run = FALSE
    /\ opt_start_all_stopped = FALSE
    /\ remote_apps = <<>>
    /\ stopped_csv = <<>>
    /\ running_apps = <<>>
    /\ confirmation = "none"
    /\ stopped_apps = <<>>
    /\ csv_written = FALSE
    /\ app_idx = 1
    /\ rows_read = <<>>
    /\ app_requests = <<>>

GbpIdle ==
    /\ gbp_pc = "idle"
    /\ gbp_api_key = FALSE
    /\ args_username = "alice"
    /\ gbp_user_id = "None"
    /\ gbp_git_provider_id = "None"
    /\ gbp_project_id = "None"
    /\ gbp_requests = <<>>
    /\ gbp_created = {}
    /\ gbp_exit = -1

ModelsIdle ==
    /\ models_pc = "idle"
    /\ script = "manage_model_api"
    /\ models_api_key = FALSE
    /\ operation = "show"
    /\ args_project_id = 1
    /\ remote_models = <<>>
    /\ projects = <<>>
    /\ project_idx = 1
    /\ models = <<>>
    /\ model_idx = 1
    /\ fetched_models = <<>>
    /\ model_requests = <<>>

UsageIdle ==
    /\ usage_pc = "idle"
    /\ dates_valid = FALSE
    /\ start_dt = 1
    /\ end_dt = 1
    /\ max_retries = 0
    /\ retry_delay = 0
    /\ current_dt = 0
    /\ service = <<>>
    /\ attempt = 0
    /\ response = "unbound"
    /\ req_count = 0
    /\ sleeps = <<>>
    /\ csv_ok = FALSE
    /\ xlsx_ok = FALSE
    /\ calls = <<>>
    /\ results = <<>>
    /\ http_requests = 0
    /\ files = {}
    /\ usage_exit = -1

(***************************************************************************)
(* download_daily_usage_reports_v2.py                                      *)
(***************************************************************************)

\* the locals of generate_daily_report outside a call
NoService == [k \in 1..MaxRetries |-> "ok"]

UsageInit ==
    /\ usage_pc = "main"
    /\ dates_valid \in BOOLEAN
    /\ start_dt \in Days
    /\ end_dt \in Days
    /\ max_retries \in 0..MaxRetries
    /\ retry_delay \in RetryDelays
    /\ current_dt = 0
    /\ service = NoService
    /\ attempt = 0
    /\ response = "unbound"
    /\ req_count = 0
    /\ sleeps = <<>>
    /\ csv_ok = FALSE
    /\ xlsx_ok = FALSE
    /\ calls = <<>>
    /\ results = <<>>
    /\ http_requests = 0
    /\ files = {}
    /\ usage_exit = -1

\* sys.exit(status), and an exception nobody catches (status 1)
UsageExit(pc, status) ==
    /\ usage_pc' = pc
    /\ usage_exit' = status

\* mutant of RangeInvalid: the comparison inverted
RangeInvalid_inverted(s, e) == s < e

\* main, lines 124-134: `if start_dt > end_dt`
RangeInvalid(s, e) == s > e

\* main, lines 124-137: parse and validate the two dates, then enter the loop
ParseDates ==
    /\ usage_pc = "main"
    /\ IF ~dates_valid \/ RangeInvalid(start_dt, end_dt)
         THEN /\ UsageExit("exited", 1)
              /\ UNCHANGED current_dt
         ELSE /\ usage_pc' = "loop"
              /\ current_dt' = start_dt
              /\ UNCHANGED usage_exit
    /\ UNCHANGED <<dates_valid, start_dt, end_dt, max_retries, retry_delay, service,
                   attempt, response, req_count, sleeps, csv_ok, xlsx_ok, calls,
                   results, http_requests, files>>
    /\ UNCHANGED notUsage

\* main, line 138: `while current_dt <= end_dt`
LoopContinues(cur, e) == cur <= e

\* main, lines 138-146 and generate_daily_report, lines 19-33: the loop test and
\* the call for current_dt, up to `attempt = 0`.  The service's behaviour for
\* this date is fixed here; the call discovers it request by request.
CallReport ==
    /\ usage_pc = "loop"
    /\ LoopContinues(current_dt, end_dt)
    /\ usage_pc' = "attempt"
    /\ calls' = Append(calls, current_dt)
    /\ service' \in [1..MaxRetries -> Outcomes]
    /\ attempt' = 0
    /\ response' = "unbound"
    /\ req_count' = 0
    /\ sleeps' = <<>>
    /\ csv_ok' \in BOOLEAN
    /\ xlsx_ok' \in BOOLEAN
    /\ UNCHANGED <<dates_valid, start_dt, end_dt, max_retries, retry_delay, current_dt,
                   results, http_requests, files, usage_exit>>
    /\ UNCHANGED notUsage

\* main, line 138 false: the loop is over and main returns (exit status 0)
LoopEnds ==
    /\ usage_pc = "loop"
    /\ ~LoopContinues(current_dt, end_dt)
    /\ UsageExit("exited", 0)
    /\ UNCHANGED <<dates_valid, start_dt, end_dt, max_retries, retry_delay, current_dt,
                   service, attempt, response, req_count, sleeps, csv_ok, xlsx_ok,
                   calls, results, http_requests, files>>
    /\ UNCHANGED notUsage

\* generate_daily_report, line 34: `while attempt < max_retries`
MayAttempt(att, maxr) == att < maxr

\* mutant of SleepsBeforeRetry: off by one, no sleep before the last attempt
SleepsBeforeRetry_offbyone(att, maxr) == att < maxr - 1

\* generate_daily_report, lines 40 and 50: `if attempt < max_retries` before the sleep
SleepsBeforeRetry(att, maxr) == att < maxr

\* generate_daily_report, lines 39 and 49: `attempt += 1`
NextAttempt(att) == att + 1

\* mutant of SleepDuration: the delay grows with the attempt number
SleepDuration_backoff(delay, att) == delay * att

\* generate_daily_report, lines 42 and 52: time.sleep(retry_delay)
SleepDuration(delay, att) == delay

\* the answer of the service to the k-th request of the call
Answer(k) == IF k <= MaxRetries THEN service[k] ELSE service[MaxRetries]

\* generate_daily_report, lines 34-53: one iteration of the retry loop
Attempt ==
    /\ usage_pc = "attempt"
    /\ MayAttempt(attempt, max_retries)
    /\ req_count' = req_count + 1
    /\ http_requests' = http_requests + 1
    /\ LET outcome == Answer(req_count + 1)
           failed(resp) ==
               /\ response' = resp
               /\ attempt' = NextAttempt(attempt)
               /\ sleeps' = IF SleepsBeforeRetry(attempt', max_retries)
                              THEN Append(sleeps, SleepDuration(retry_delay, attempt'))
                              ELSE sleeps
               /\ usage_pc' = "attempt"
       IN  CASE outcome = "transport" -> failed(response)
             [] outcome = "status"    -> failed("not_ok")
             [] outcome = "ok"        -> /\ response' = "ok"
                                         /\ usage_pc' = "check"
                                         /\ UNCHANGED <<attempt, sleeps>>
    /\ UNCHANGED <<dates_valid, start_dt, end_dt, max_retries, retry_delay, current_dt,
                   service, csv_ok, xlsx_ok, calls, results, files, usage_exit>>
    /\ UNCHANGED notUsage

\* generate_daily_report, line 34 false: the retry loop is left without `break`
RetriesExhausted ==
    /\ usage_pc = "attempt"
    /\ ~MayAttempt(attempt, max_retries)
    /\ usage_pc' = "check"
    /\ UNCHANGED <<dates_valid, start_dt, end_dt, max_retries, retry_delay, current_dt,
                   service, attempt, response, req_count, sleeps, csv_ok, xlsx_ok,
                   calls, results, http_requests, files, usage_exit>>
    /\ UNCHANGED notUsage

\* generate_daily_report returns `res` to main, lines 147-150: main logs a failure
\* and moves to the next day
Return(res) ==
    /\ results' = Append(results, res)
    /\ usage_pc' = "returned"
    /\ UNCHANGED usage_exit

\* generate_daily_report, lines 56-58: `if attempt == max_retries and not response.ok`.
\* When no request ever produced a response the name `response` is unbound and
\* the test raises UnboundLocalError, which neither the function nor main catches.
CheckExhausted ==
    /\ usage_pc = "check"
    /\ IF attempt = max_retries
         THEN CASE response = "unbound" -> /\ results' = Append(results, "raised")
                                           /\ UsageExit("crashed", 1)
                [] response = "not_ok"  -> Return("False")
                [] response = "ok"      -> /\ usage_pc' = "parse"
                                           /\ UNCHANGED <<results, usage_exit>>
         ELSE /\ usage_pc' = "parse"
              /\ UNCHANGED <<results, usage_exit>>
    /\ UNCHANGED <<dates_valid, start_dt, end_dt, max_retries, retry_delay, current_dt,
                   service, attempt, response, req_count, sleeps, csv_ok, xlsx_ok,
                   calls, http_requests, files>>
    /\ UNCHANGED notUsage

\* mutant of ParseCsv: a body that does not parse is treated like a failed
\* attempt and retried while attempts remain
ParseCsv_retries ==
    /\ usage_pc = "parse"
    /\ IF response # "unbound" /\ csv_ok
         THEN /\ usage_pc' = "write"
              /\ UNCHANGED <<results, usage_exit, attempt>>
         ELSE IF attempt + 1 < max_retries
                THEN /\ attempt' = attempt + 1
                     /\ usage_pc' = "attempt"
                     /\ UNCHANGED <<results, usage_exit>>
                ELSE /\ Return("False")
                     /\ UNCHANGED attempt
    /\ UNCHANGED <<dates_valid, start_dt, end_dt, max_retries, retry_delay, current_dt,
                   service, response, req_count, sleeps, csv_ok, xlsx_ok, calls,
                   http_requests, files>>
    /\ UNCHANGED notUsage

\* generate_daily_report, lines 61-66: response.text and pd.read_csv inside
\* try/except Exception (an unbound `response` is caught here too)
ParseCsv ==
    /\ usage_pc = "parse"
    /\ IF response # "unbound" /\ csv_ok
         THEN /\ usage_pc' = "write"
              /\ UNCHANGED <<results, usage_exit>>
         ELSE Return("False")
    /\ UNCHANGED <<dates_valid, start_dt, end_dt, max_retries, retry_delay, current_dt,
                   service, attempt, response, req_count, sleeps, csv_ok, xlsx_ok, calls,
                   http_requests, files>>
    /\ UNCHANGED notUsage

\* generate_daily_report, lines 69-79: df.to_excel inside try/except Exception
WriteXlsx ==
    /\ usage_pc = "write"
    /\ files' = IF xlsx_ok THEN files \cup {current_dt} ELSE files
    /\ Return(IF xlsx_ok THEN "True" ELSE "False")
    /\ UNCHANGED <<dates_valid, start_dt, end_dt, max_retries, retry_delay, current_dt,
                   service, attempt, response, req_count, sleeps, csv_ok, xlsx_ok, calls,
                   http_requests>>
    /\ UNCHANGED notUsage

\* main, lines 147-150: back in main, `current_dt += timedelta(days=1)`; the
\* locals of the finished call are gone
NextDay ==
    /\ usage_pc = "returned"
    /\ usage_pc' = "loop"
    /\ current_dt' = current_dt + 1
    /\ service' = NoService
    /\ attempt' = 0
    /\ response' = "unbound"
    /\ req_count' = 0
    /\ sleeps' = <<>>
    /\ csv_ok' = FALSE
    /\ xlsx_ok' = FALSE
    /\ UNCHANGED <<dates_valid, start_dt, end_dt, max_retries, retry_delay, calls,
                   results, http_requests, files, usage_exit>>
    /\ UNCHANGED notUsage

UsageNext ==
    \/ ParseDates
    \/ CallReport
    \/ LoopEnds
    \/ Attempt
    \/ RetriesExhausted
    \/ CheckExhausted
    \/ ParseCsv
    \/ WriteXlsx
    \/ NextDay

InitUsage ==
    UsageInit /\ OrgIdle /\ TagsIdle /\ ArchIdle /\ InvIdle
        /\ AppsIdle /\ GbpIdle /\ ModelsIdle

SpecUsage == InitUsage /\ [][UsageNext]_vars

(***************************************************************************)
(* Properties of download_daily_usage_reports_v2.py                        *)
(***************************************************************************)

\* the current call of generate_daily_report is over (returned or raised)
CallOver == usage_pc \in {"returned", "crashed"}

LastResult == results[Len(results)]

\* the service fails every one of the max_retries requests of this date
AllAttemptsFail == \A k \in 1..max_retries : service[k] \in Failures

\* the service fails the first max_retries - 1 requests and then succeeds
FailsThenSucceeds ==
    /\ \A k \in 1..(max_retries - 1) : service[k] \in Failures
    /\ service[max_retries] = "ok"

\* C1: when all max_retries >= 1 attempts of a date fail, by transport error or
\* by status in any mix, generate_daily_report returns False without raising
\* (and main can go on with the next date).
C1_ExhaustionReturnsFalse ==
    (CallOver /\ max_retries >= 1 /\ AllAttemptsFail)
        => (usage_pc = "returned" /\ LastResult = "False" /\ usage_exit = -1)

\* C7: with max_retries = N >= 1 and a service that fails the first N-1
\* requests of a date and answers the N-th with a success status (a body that
\* parses, a file that can be written), generate_daily_report issues exactly N
\* requests, sleeps exactly N-1 times, writes the export of that date and
\* returns True.
C7_FailsThenSucceedsExportsOnce ==
    (CallOver /\ max_retries >= 1 /\ FailsThenSucceeds /\ csv_ok /\ xlsx_ok)
        => /\ req_count = max_retries
           /\ Len(sleeps) = max_retries - 1
           /\ usage_pc = "returned"
           /\ LastResult = "True"
           /\ current_dt \in files

C7_Witness ==
    /\ usage_pc = "returned"
    /\ max_retries = MaxRetries
    /\ FailsThenSucceeds
    /\ service[1] = "transport"
    /\ service[2] = "status"
    /\ LastResult = "True"
    /\ Len(sleeps) = MaxRetries - 1

\* C8: a call issues at most max_retries requests; every sleep lasts exactly
\* retry_delay; a sleep follows a failed request and is followed by another
\* request, so there is none after the last allowed attempt and none after a
\* successful one.
C8_BoundedAttemptsFixedDelay ==
    /\ req_count <= max_retries
    /\ \A i \in 1..Len(sleeps) : sleeps[i] = retry_delay
    /\ \A i \in 1..Len(sleeps) : i <= req_count /\ Answer(i) \in Failures
    /\ (usage_pc = "attempt" /\ req_count > 0 /\ Len(sleeps) = req_count)
           => MayAttempt(attempt, max_retries)
    /\ (usage_pc \in {"check", "parse", "write", "returned", "crashed"} /\ req_count > 0)
           => Len(sleeps) < req_count

C8_Witness ==
    /\ usage_pc = "returned"
    /\ max_retries = MaxRetries
    /\ req_count = MaxRetries
    /\ Len(sleeps) = MaxRetries - 1
    /\ LastResult = "False"

\* C9: when the parsed start date is after the end date the run ends with exit
\* status 1 and has issued no request, called generate_daily_report for no
\* date and written no file.
C9_StartAfterEndFailsFast ==
    (dates_valid /\ start_dt > end_dt)
        => /\ http_requests = 0
           /\ files = {}
           /\ calls = <<>>
           /\ usage_pc \in {"main", "exited"}
           /\ usage_pc = "exited" => usage_exit = 1

C9_Witness ==
    /\ dates_valid
    /\ start_dt > end_dt
    /\ usage_pc = "exited"
    /\ usage_exit = 1

\* the days start_dt..end_dt in ascending order
DaysOfRange == [i \in 1..(end_dt - start_dt + 1) |-> start_dt + i - 1]

\* C10: for start <= end, by the time the process ends generate_daily_report
\* has been called exactly once for each day of start..end, in ascending
\* order, whatever the outcome of the earlier days.
C10_EveryDayCalledOnce ==
    (usage_exit # -1 /\ dates_valid /\ start_dt <= end_dt /\ max_retries >= 1)
        => calls = DaysOfRange

\* the k-th request of the call is the first the service answers with success
FirstOkAt(k) ==
    /\ service[k] = "ok"
    /\ \A j \in 1..(k - 1) : service[j] \in Failures

\* C11: when a request for a date returns a success status and the body does
\* not parse, generate_daily_report returns False for that date, writes no
\* file and issues no further request, even if attempts remain.
C11_ParseFailureNotRetried ==
    \A k \in 1..max_retries :
        (FirstOkAt(k) /\ ~csv_ok /\ usage_pc # "loop")
            => /\ req_count <= k
               /\ usage_pc # "write"
               /\ current_dt \notin files
               /\ usage_pc = "returned" => (LastResult = "False" /\ req_count = k)

C11_Witness ==
    /\ usage_pc = "returned"
    /\ max_retries = MaxRetries
    /\ FirstOkAt(1)
    /\ ~csv_ok
    /\ req_count = 1
    /\ LastResult = "False"

\* C20: the script exits with status 0 only when every date of the range
\* produced an export, and with status 1 when some date failed for good
\* (attempts exhausted, parse failure or write failure).
C20_ExitStatusReflectsFailures ==
    (usage_pc = "exited" /\ dates_valid /\ start_dt <= end_dt)
        => (usage_exit = 0 <=> \A i \in 1..Len(results) : results[i] = "True")

(***************************************************************************)
(* manage_org_members.py                                                   *)
(***************************************************************************)

\* the usernames the model knows and the user id the service gives each
Names == {"alice", "bob"}
UserIdOf(name) == IF name = "alice" THEN "u1" ELSE "u2"
UserIds == {UserIdOf(n) : n \in Names}

\* Python's None
None == "None"

\* the lines a username file is made of: a name, a name with trailing blanks,
\* a line of blanks
LineValues == {"alice", "bob  ", "   "}

\* str.strip() on the lines of the model
Strip(line) ==
    CASE line = "bob  " -> "bob"
      [] line = "   "   -> ""
      [] OTHER          -> line

\* how the service lists a user: with its id, with an empty id, or not at all
UserListings == {"listed", "no_id", "absent"}

\* the body of GET /api/users/v1/users for a given listing of the names
UserList(listing) ==
    LET rec(n) == [userName |-> n, id |-> IF listing[n] = "listed" THEN UserIdOf(n) ELSE ""]
        all == <<rec("alice"), rec("bob")>>
        present(r) == listing[r.userName] # "absent"
    IN  SelectSeq(all, present)

UserLists == {UserList(l) : l \in [Names -> UserListings]}

\* the sequences over S of length at most n
SeqsUpTo(S, n) == UNION {[1..k -> S] : k \in 0..n}

Range(seq) == {seq[i] : i \in 1..Len(seq)}

OrgInit ==
    /\ org_pc = "main"
    /\ run = 1
    /\ prev_exit = -1
    /\ prev_mutations = 0
    /\ api_token \in BOOLEAN
    /\ action \in {"add", "remove"}
    /\ dry_run \in BOOLEAN
    /\ skip_confirmation \in BOOLEAN
    /\ file_exists \in BOOLEAN
    /\ file_lines \in (IF file_exists THEN SeqsUpTo(LineValues, MaxLines) ELSE {<<>>})
    /\ remote_users \in UserLists
    /\ remote_members \in SUBSET UserIds
    /\ org_outcome = "none"
    /\ users_outcome = "none"
    /\ usernames = <<>>
    /\ current_members = {}
    /\ user_ids_to_process = <<>>
    /\ missing_users = <<>>
    /\ users_to_process = <<>>
    /\ next_user = 1
    /\ success_count = 0
    /\ failure_count = 0
    /\ confirmed = "not_asked"
    /\ answer = "none"
    /\ org_reply = <<>>
    /\ interrupted = FALSE
    /\ gets = <<>>
    /\ mutations = <<>>
    /\ org_exit = -1

\* main, line 596: sys.exit(0 if success else 1)
ExitStatus(success) == IF success THEN 0 ELSE 1

\* manage_members returns `success` and main exits with the matching status
OrgReturn(success) ==
    /\ org_pc' = "exited"
    /\ org_exit' = ExitStatus(success)

\* main, lines 571-585: the token check; without a token the process exits
\* with status 1, with one the manager is created and manage_members starts
OrgMain ==
    /\ org_pc = "main"
    /\ IF api_token
         THEN /\ org_pc' = "read_file"
              /\ UNCHANGED org_exit
         ELSE /\ org_pc' = "exited"
              /\ org_exit' = 1
    /\ UNCHANGED <<run, prevRun, orgInputs, remote_members, orgLocals>>
    /\ UNCHANGED notOrg

\* mutant of ReadLines: a name is kept once, at its first line
ReadLines_unique(lines) ==
    LET stripped == [i \in 1..Len(lines) |-> Strip(lines[i])]
        kept[k \in 0..Len(lines)] ==
            IF k = 0 THEN <<>>
            ELSE IF stripped[k] = "" \/ stripped[k] \in Range(kept[k - 1])
                   THEN kept[k - 1]
                   ELSE Append(kept[k - 1], stripped[k])
    IN  kept[Len(lines)]

\* read_usernames_from_file, line 340: [line.strip() for line in f if line.strip()]
ReadLines(lines) ==
    LET stripped == [i \in 1..Len(lines) |-> Strip(lines[i])]
        nonblank(l) == l # ""
    IN  SelectSeq(stripped, nonblank)

\* mutant of ReadUsernames: a missing file is read as an empty list
ReadUsernames_empty ==
    /\ org_pc = "read_file"
    /\ usernames' = IF file_exists THEN ReadLines(file_lines) ELSE <<>>
    /\ org_pc' = "get_org"
    /\ UNCHANGED org_exit
    /\ UNCHANGED <<run, prevRun, orgInputs, remote_members, org_outcome, users_outcome,
                   current_members, user_ids_to_process, missing_users, users_to_process,
                   next_user, success_count, failure_count, confirmed, answer, org_reply,
                   interrupted, gets, mutations>>
    /\ UNCHANGED notOrg

\* manage_members, line 375, and read_usernames_from_file, lines 332-344: a
\* missing file raises FileNotFoundError, which manage_members turns into
\* `return False` (lines 489-491)
ReadUsernames ==
    /\ org_pc = "read_file"
    /\ IF file_exists
         THEN /\ usernames' = ReadLines(file_lines)
              /\ org_pc' = "get_org"
              /\ UNCHANGED org_exit
         ELSE /\ OrgReturn(FALSE)
              /\ UNCHANGED usernames
    /\ UNCHANGED <<run, prevRun, orgInputs, remote_members, org_outcome, users_outcome,
                   current_members, user_ids_to_process, missing_users, users_to_process,
                   next_user, success_count, failure_count, confirmed, answer, org_reply,
                   interrupted, gets, mutations>>
    /\ UNCHANGED notOrg

\* how GET /api/organizations/v1/organizations/all?nameFilter=... can end:
\*   "found"    the list holds an organization with exactly the requested name
\*   "empty"    the list of organizations is empty
\*   "no_exact" the list holds only organizations with other names
\*   "error"    RequestException (transport error or error status)
OrgOutcomes == {"found", "empty", "no_exact", "error"}

\* the --org of the command line, and an organization whose name contains it
\* (nameFilter matches by substring)
OrgName == "myorg"
OtherOrgName == "myorg-dev"

\* the `orgs` lists the organization fetch can return
OrgReplies == {<<>>, <<OtherOrgName>>, <<OtherOrgName, OrgName>>, <<OrgName>>}

\* mutant of HasExactMatch: the first organization of the list is taken
HasExactMatch_any(orgs, name) == orgs # <<>>

\* get_organization_info, lines 219-223: `if org.get('name') == org_name`
HasExactMatch(orgs, name) == \E i \in 1..Len(orgs) : orgs[i] = name

\* get_organization_info, lines 213-226: what the function makes of `orgs`
OrgResult(orgs, name) ==
    IF orgs = <<>> THEN "empty"
    ELSE IF HasExactMatch(orgs, name) THEN "found"
    ELSE "no_exact"

\* manage_members, lines 378-383, and get_organization_info, lines 200-233
GetOrganizationInfo ==
    /\ org_pc = "get_org"
    /\ gets' = Append(gets, "org")
    /\ \E failed \in BOOLEAN, orgs \in OrgReplies :
         LET outcome == IF failed THEN "error" ELSE OrgResult(orgs, OrgName)
         IN  /\ outcome \in OrgOutcomes
             /\ org_outcome' = outcome
             /\ org_reply' = IF failed THEN <<>> ELSE orgs
             /\ IF outcome = "found"
                  THEN /\ current_members' = remote_members
                       /\ org_pc' = "get_users"
                       /\ UNCHANGED org_exit
                  ELSE /\ OrgReturn(FALSE)
                       /\ UNCHANGED current_members
    /\ UNCHANGED <<run, prevRun, orgInputs, remote_members, users_outcome, usernames,
                   user_ids_to_process, missing_users, users_to_process, next_user,
                   success_count, failure_count, confirmed, answer, interrupted, mutations>>
    /\ UNCHANGED notOrg

\* Python's truth value of a user name or user id
Truthy(x) == x # None /\ x # ""

\* get_users_batch, lines 115-120: all_users_map, as the set of names it maps
MappedNames(list) ==
    {list[i].userName : i \in {j \in 1..Len(list) :
                                  Truthy(list[j].userName) /\ Truthy(list[j].id)}}

\* get_users_batch, lines 115-127: all_users_map.get(username); a later entry
\* of the list replaces an earlier one with the same userName
Lookup(list, username) ==
    IF username \in MappedNames(list)
      THEN LET hits == {j \in 1..Len(list) :
                           /\ list[j].userName = username
                           /\ Truthy(list[j].userName) /\ Truthy(list[j].id)}
               last == CHOOSE j \in hits : \A k \in hits : k <= j
           IN  list[last].id
      ELSE None

\* mutant of Resolved: a name the lookup did not find is processed all the same
Resolved_any(user_id) == TRUE

\* manage_members, line 394: `if user_id`
Resolved(user_id) == Truthy(user_id)

\* mutant of ResolvedPairs: the pairs come out last line first
ResolvedPairs_reversed(names, list) ==
    LET pairs == [i \in 1..Len(names) |->
                     <<names[Len(names) + 1 - i], Lookup(list, names[Len(names) + 1 - i])>>]
        found(p) == Resolved(p[2])
    IN  SelectSeq(pairs, found)

\* manage_members, lines 392-398: the resolved pairs, in the order of the file
ResolvedPairs(names, list) ==
    LET pairs == [i \in 1..Len(names) |-> <<names[i], Lookup(list, names[i])>>]
        found(p) == Resolved(p[2])
    IN  SelectSeq(pairs, found)

\* manage_members, lines 392-398: the names that did not resolve, in file order
MissingUsers(names, list) ==
    LET missing(n) == ~Resolved(Lookup(list, n))
    IN  SelectSeq(names, missing)

\* mutant of NeedsChange: the remove branch filters like the add branch
NeedsChange_addonly(act, user_id, members) == user_id \notin members

\* mutant of NeedsChange: the fetched membership is not consulted
NeedsChange_unfiltered(act, user_id, members) == TRUE

\* manage_members, lines 408-419: whether a resolved user takes part in the
\* apply phase: not a member yet when adding, a member when removing
NeedsChange(act, user_id, members) ==
    IF act = "add" THEN user_id \notin members ELSE user_id \in members

\* mutant of FilterByAction: every resolved user goes to the apply phase
FilterByAction_all(act, pairs, members) == pairs

\* manage_members, lines 410 and 418: users_to_process
FilterByAction(act, pairs, members) ==
    LET needs(p) == NeedsChange(act, p[2], members)
    IN  SelectSeq(pairs, needs)

\* manage_members, line 447: `if not skip_confirmation and not dry_run`
AsksConfirmation(skip, dry) == ~skip /\ ~dry

\* mutant of GetUsersBatch: a list with no resolved name ends like a list whose
\* resolved names need no change
GetUsersBatch_lenient ==
    /\ org_pc = "get_users"
    /\ gets' = Append(gets, "users")
    /\ \E outcome \in {"ok", "error"} :
         /\ users_outcome' = outcome
         /\ IF outcome = "error"
              THEN /\ OrgReturn(FALSE)
                   /\ UNCHANGED <<user_ids_to_process, missing_users, users_to_process>>
              ELSE /\ user_ids_to_process' = ResolvedPairs(usernames, remote_users)
                   /\ missing_users' = MissingUsers(usernames, remote_users)
                   /\ users_to_process' =
                          FilterByAction(action, user_ids_to_process', current_members)
                   /\ IF users_to_process' = <<>>
                        THEN OrgReturn(TRUE)
                        ELSE /\ org_pc' = IF AsksConfirmation(skip_confirmation, dry_run)
                                            THEN "confirm" ELSE "apply"
                             /\ UNCHANGED org_exit
    /\ UNCHANGED <<run, prevRun, orgInputs, remote_members, org_outcome, usernames,
                   current_members, next_user, success_count, failure_count, confirmed,
                   answer, org_reply, interrupted, mutations>>
    /\ UNCHANGED notOrg

\* manage_members, lines 386-447, and get_users_batch, lines 97-143: the user
\* fetch, the partition into resolved and missing names, the filter by action
\* and the summary, up to the confirmation prompt
GetUsersBatch ==
    /\ org_pc = "get_users"
    /\ gets' = Append(gets, "users")
    /\ \E outcome \in {"ok", "error"} :
         /\ users_outcome' = outcome
         /\ IF outcome = "error"
              THEN /\ OrgReturn(FALSE)
                   /\ UNCHANGED <<user_ids_to_process, missing_users, users_to_process>>
              ELSE /\ user_ids_to_process' = ResolvedPairs(usernames, remote_users)
                   /\ missing_users' = MissingUsers(usernames, remote_users)
                   /\ IF user_ids_to_process' = <<>>
                        THEN /\ OrgReturn(FALSE)
                             /\ UNCHANGED users_to_process
                        ELSE /\ users_to_process' =
                                    FilterByAction(action, user_ids_to_process', current_members)
                             /\ IF users_to_process' = <<>>
                                  THEN OrgReturn(TRUE)
                                  ELSE /\ org_pc' = IF AsksConfirmation(skip_confirmation, dry_run)
                                                      THEN "confirm" ELSE "apply"
                                       /\ UNCHANGED org_exit
    /\ UNCHANGED <<run, prevRun, orgInputs, remote_members, org_outcome, usernames,
                   current_members, next_user, success_count, failure_count, confirmed,
                   answer, org_reply, interrupted, mutations>>
    /\ UNCHANGED notOrg

\* what the user can type at "Do you want to proceed? (yes/no): "
Answers == {"yes", "y", " YES ", "no", ""}

\* manage_members, line 449: .strip().lower() on the answers of the model
Normalize(typed) == IF typed = " YES " THEN "yes" ELSE typed

\* mutant of Affirmative: everything but "no" counts as consent
Affirmative_default(typed) == Normalize(typed) # "no"

\* manage_members, line 450: `response not in ['yes', 'y']` is False
Affirmative(typed) == Normalize(typed) \in {"yes", "y"}

\* manage_members, lines 447-453: the confirmation prompt.  input() can also
\* raise EOFError (no terminal), which lines 489-491 turn into `return False`.
Confirm ==
    /\ org_pc = "confirm"
    /\ \E typed \in Answers \cup {"EOFError"} :
         /\ answer' = typed
         /\ IF typed # "EOFError" /\ Affirmative(typed)
              THEN /\ confirmed' = "yes"
                   /\ org_pc' = "apply"
                   /\ UNCHANGED org_exit
              ELSE /\ confirmed' = "no"
                   /\ OrgReturn(FALSE)
    /\ UNCHANGED <<run, prevRun, orgInputs, remote_members, org_outcome, users_outcome,
                   usernames, current_members, user_ids_to_process, missing_users,
                   users_to_process, next_user, success_count, failure_count, org_reply,
                   interrupted, gets, mutations>>
    /\ UNCHANGED notOrg

\* mutant of SendsRequest: the dry-run short cut is missing
SendsRequest_always(dry) == TRUE

\* add_member, lines 294-298, and remove_member, lines 249-252: with dry_run no
\* request is sent
SendsRequest(dry) == ~dry

\* manage_members, lines 462-465: add_member issues session.put (line 305),
\* remove_member issues session.delete (line 258)
Method(act) == IF act = "add" THEN "PUT" ELSE "DELETE"

\* the members of the organization after the service has carried out a request
MembersAfter(method, user_id, members) ==
    IF method = "PUT" THEN members \cup {user_id} ELSE members \ {user_id}

\* mutant of ApplyOne: a failed request is followed by a compensating call
\* that puts the organization back as it was fetched
ApplyOne_rollback ==
    /\ org_pc = "apply"
    /\ next_user <= Len(users_to_process)
    /\ LET username == users_to_process[next_user][1]
           user_id  == users_to_process[next_user][2]
           call(m, o) == [method |-> m, user_id |-> user_id, username |-> username,
                          outcome |-> o]
       IN  IF SendsRequest(dry_run)
             THEN \E outcome \in {"ok", "error"} :
                    /\ mutations' = IF outcome = "ok"
                                      THEN Append(mutations, call(Method(action), "ok"))
                                      ELSE mutations \o <<call(Method(action), "error"),
                                                          call(IF action = "add" THEN "DELETE"
                                                                                 ELSE "PUT", "ok")>>
                    /\ remote_members' = IF outcome = "ok"
                                           THEN MembersAfter(Method(action), user_id, remote_members)
                                           ELSE current_members
                    /\ success_count' = IF outcome = "ok" THEN success_count + 1 ELSE success_count
                    /\ failure_count' = IF outcome = "ok" THEN failure_count ELSE failure_count + 1
             ELSE /\ success_count' = success_count + 1
                  /\ UNCHANGED <<mutations, remote_members, failure_count>>
    /\ next_user' = next_user + 1
    /\ UNCHANGED <<org_pc, run, prevRun, orgInputs, org_outcome, users_outcome, usernames,
                   current_members, user_ids_to_process, missing_users, users_to_process,
                   confirmed, answer, org_reply, interrupted, gets, org_exit>>
    /\ UNCHANGED notOrg

\* mutant of ApplyOne: the first failed request ends the loop
ApplyOne_stops ==
    /\ org_pc = "apply"
    /\ next_user <= Len(users_to_process)
    /\ LET username == users_to_process[next_user][1]
           user_id  == users_to_process[next_user][2]
       IN  IF SendsRequest(dry_run)
             THEN \E outcome \in {"ok", "error"} :
                    /\ mutations' = Append(mutations,
                           [method |-> Method(action), user_id |-> user_id,
                            username |-> username, outcome |-> outcome])
                    /\ remote_members' = IF outcome = "ok"
                                           THEN MembersAfter(Method(action), user_id, remote_members)
                                           ELSE remote_members
                    /\ success_count' = IF outcome = "ok" THEN success_count + 1 ELSE success_count
                    /\ failure_count' = IF outcome = "ok" THEN failure_count ELSE failure_count + 1
                    /\ next_user' = IF outcome = "ok" THEN next_user + 1
                                                      ELSE Len(users_to_process) + 1
             ELSE /\ success_count' = success_count + 1
                  /\ next_user' = next_user + 1
                  /\ UNCHANGED <<mutations, remote_members, failure_count>>
    /\ UNCHANGED <<org_pc, run, prevRun, orgInputs, org_outcome, users_outcome, usernames,
                   current_members, user_ids_to_process, missing_users, users_to_process,
                   confirmed, answer, org_reply, interrupted, gets, org_exit>>
    /\ UNCHANGED notOrg

\* manage_members, lines 459-473: one iteration of the apply loop, with the
\* add_member or remove_member call it makes.  A request ends "ok" or with a
\* RequestException ("error": transport error or error status), which
\* add_member and remove_member turn into `return False`.
ApplyOne ==
    /\ org_pc = "apply"
    /\ next_user <= Len(users_to_process)
    /\ LET username == users_to_process[next_user][1]
           user_id  == users_to_process[next_user][2]
       IN  IF SendsRequest(dry_run)
             THEN \E outcome \in {"ok", "error"} :
                    /\ mutations' = Append(mutations,
                           [method |-> Method(action), user_id |-> user_id,
                            username |-> username, outcome |-> outcome])
                    /\ remote_members' = IF outcome = "ok"
                                           THEN MembersAfter(Method(action), user_id, remote_members)
                                           ELSE remote_members
                    /\ success_count' = IF outcome = "ok" THEN success_count + 1 ELSE success_count
                    /\ failure_count' = IF outcome = "ok" THEN failure_count ELSE failure_count + 1
             ELSE /\ success_count' = success_count + 1
                  /\ UNCHANGED <<mutations, remote_members, failure_count>>
    /\ next_user' = next_user + 1
    /\ UNCHANGED <<org_pc, run, prevRun, orgInputs, org_outcome, users_outcome, usernames,
                   current_members, user_ids_to_process, missing_users, users_to_process,
                   confirmed, answer, org_reply, interrupted, gets, org_exit>>
    /\ UNCHANGED notOrg

\* mutant of AllSucceeded: the failure count is ignored
AllSucceeded_always(failures) == TRUE

\* manage_members, line 487: `return failure_count == 0`
AllSucceeded(failures) == failures = 0

\* manage_members, lines 475-487: the apply loop is over; summary and result
Summarize ==
    /\ org_pc = "apply"
    /\ next_user > Len(users_to_process)
    /\ OrgReturn(AllSucceeded(failure_count))
    /\ UNCHANGED <<run, prevRun, orgInputs, remote_members, orgLocals>>
    /\ UNCHANGED notOrg

\* mutant of InterruptStatus: the interrupt gives the status of a failed run
InterruptStatus_generic == ExitStatus(FALSE)

\* main, line 600: sys.exit(130)
InterruptStatus == 130

\* main, lines 598-600: KeyboardInterrupt, raised at any point between the
\* creation of the manager and the end of manage_members.  It is not an
\* Exception, so no handler of DominoOrgManager catches it.
Interrupt ==
    /\ org_pc \in {"read_file", "get_org", "get_users", "confirm", "apply"}
    /\ interrupted' = TRUE
    /\ org_pc' = "exited"
    /\ org_exit' = InterruptStatus
    /\ UNCHANGED <<run, prevRun, orgInputs, remote_members, org_outcome, users_outcome,
                   usernames, current_members, user_ids_to_process, missing_users,
                   users_to_process, next_user, success_count, failure_count, confirmed,
                   answer, org_reply, gets, mutations>>
    /\ UNCHANGED notOrg

\* the script is started again with the same command line and the same file,
\* against the service as the previous run left it
Rerun ==
    /\ org_pc = "exited"
    /\ run < MaxRuns
    /\ run' = run + 1
    /\ prev_exit' = org_exit
    /\ prev_mutations' = Len(mutations)
    /\ org_pc' = "main"
    /\ org_exit' = -1
    /\ org_outcome' = "none"
    /\ users_outcome' = "none"
    /\ usernames' = <<>>
    /\ current_members' = {}
    /\ user_ids_to_process' = <<>>
    /\ missing_users' = <<>>
    /\ users_to_process' = <<>>
    /\ next_user' = 1
    /\ success_count' = 0
    /\ failure_count' = 0
    /\ confirmed' = "not_asked"
    /\ answer' = "none"
    /\ org_reply' = <<>>
    /\ interrupted' = FALSE
    /\ gets' = <<>>
    /\ mutations' = <<>>
    /\ UNCHANGED <<orgInputs, remote_members>>
    /\ UNCHANGED notOrg

OrgNext ==
    \/ OrgMain
    \/ ReadUsernames
    \/ GetOrganizationInfo
    \/ GetUsersBatch
    \/ Confirm
    \/ ApplyOne
    \/ Summarize
    \/ Interrupt
    \/ Rerun

InitOrg ==
    OrgInit /\ UsageIdle /\ TagsIdle /\ ArchIdle /\ InvIdle
        /\ AppsIdle /\ GbpIdle /\ ModelsIdle

SpecOrg == InitOrg /\ [][OrgNext]_vars

(***************************************************************************)
(* Properties of manage_org_members.py                                     *)
(***************************************************************************)

\* the fetched user list has an entry for this username with this id
ListedAs(username, user_id) ==
    \E j \in 1..Len(remote_users) :
        remote_users[j].userName = username /\ remote_users[j].id = user_id

\* the fetched user list has no entry for this username
NotListed(username) ==
    \A j \in 1..Len(remote_users) : remote_users[j].userName # username

\* C2: every mutating call (PUT of add_member, DELETE of remove_member) is for
\* an item of the input list that resolved to a user id of the fetched user
\* list and that needs the change according to the fetched membership: not a
\* member when adding, a member when removing.
C2_MutationsOnlyWhereChangeNeeded ==
    \A i \in 1..Len(mutations) :
        LET m == mutations[i]
        IN  /\ m.username \in Range(usernames)
            /\ Truthy(m.user_id)
            /\ ListedAs(m.username, m.user_id)
            /\ action = "add" => (m.method = "PUT" /\ m.user_id \notin current_members)
            /\ action = "remove" => (m.method = "DELETE" /\ m.user_id \in current_members)

C2_Witness ==
    /\ org_pc = "exited"
    /\ Len(user_ids_to_process) = 2
    /\ Len(mutations) = 1
    /\ mutations[1].user_id \in current_members

\* C3: with --dry-run no mutating call is issued, for either action and
\* whatever --yes says; the only requests are the two reads.
C3_DryRunIssuesNoMutation ==
    dry_run => (mutations = <<>> /\ Range(gets) \subseteq {"org", "users"})

C3_Witness ==
    /\ dry_run
    /\ org_pc = "exited"
    /\ success_count = 2
    /\ gets = <<"org", "users">>

\* C4: once the user list is fetched, every username of the input that the list
\* does not hold is in missing_users, and no mutating call is ever made for a
\* missing username or without a user id.
C4_UnresolvedReportedNeverMutated ==
    users_outcome = "ok"
        => /\ \A i \in 1..Len(usernames) :
                  NotListed(usernames[i]) => usernames[i] \in Range(missing_users)
           /\ \A i \in 1..Len(mutations) :
                  /\ mutations[i].username \notin Range(missing_users)
                  /\ ~NotListed(mutations[i].username)
                  /\ Truthy(mutations[i].user_id)

C4_Witness ==
    /\ org_pc = "exited"
    /\ Len(mutations) = 1
    /\ Len(missing_users) = 1
    /\ NotListed(missing_users[1])

\* C5 as stated: a second add run with the same list, after a first run that
\* went through its apply phase, issues no mutating call.
C5_SecondAddRunIssuesNothing ==
    (run >= 2 /\ action = "add" /\ prev_exit \in {0, 1} /\ prev_mutations >= 1)
        => mutations = <<>>

\* C5 amended: in an add run the users that are already members are excluded
\* from the apply phase, and an add run that follows a run with the same list
\* that ended with success (exit status 0) issues no mutating call.
C5_AddIdempotentAfterSuccess ==
    /\ action = "add"
          => \A i \in 1..Len(users_to_process) :
                 users_to_process[i][2] \notin current_members
    /\ (run >= 2 /\ action = "add" /\ prev_exit = 0) => mutations = <<>>

C5_Witness ==
    /\ run = 2
    /\ action = "add"
    /\ ~dry_run
    /\ prev_exit = 0
    /\ prev_mutations = 2
    /\ org_pc = "exited"
    /\ org_exit = 0
    /\ Len(user_ids_to_process) = 2

\* a precondition of the run failed: no token, no file, no organization, no
\* user list, or no username of the file that resolves
FatalPrecondition ==
    \/ ~api_token
    \/ ~file_exists
    \/ org_outcome \in {"empty", "no_exact", "error"}
    \/ users_outcome = "error"
    \/ /\ users_outcome = "ok"
       /\ \A i \in 1..Len(usernames) : \A id \in UserIds : ~ListedAs(usernames[i], id)

\* C6 as stated: a run that is not interrupted ends with exit status 0 if and
\* only if its failure count is zero and no precondition failed.
C6_SuccessIffNoFailure ==
    (org_pc = "exited" /\ ~interrupted)
        => (org_exit = 0 <=> (failure_count = 0 /\ ~FatalPrecondition))

\* C6 amended: the run ends with exit status 0 if and only if no precondition
\* failed, the prompt was not declined, the run was not interrupted and the
\* failure count is zero; every other run ends with status 1 or 130.
C6_SuccessIffNoFailureNoCancel ==
    org_pc = "exited"
        => /\ org_exit \in {0, 1, 130}
           /\ org_exit = 0 <=> /\ failure_count = 0
                               /\ ~FatalPrecondition
                               /\ confirmed # "no"
                               /\ ~interrupted

C6_Witness ==
    /\ org_pc = "exited"
    /\ org_exit = 1
    /\ failure_count = 1
    /\ success_count = 1
    /\ confirmed = "yes"

\* the run went through its apply phase to the summary (lines 475-487)
ReachedSummary ==
    /\ org_pc = "exited"
    /\ users_to_process # <<>>
    /\ confirmed # "no"
    /\ ~interrupted

\* the resolved items that are already as the action wants them: members for
\* add, non-members for remove
AlreadySatisfied ==
    {i \in 1..Len(user_ids_to_process) :
        IF action = "add" THEN user_ids_to_process[i][2] \in current_members
                          ELSE user_ids_to_process[i][2] \notin current_members}

\* C12: at the summary, resolved items = processed items + items already
\* satisfied for the action, and processed items = success_count +
\* failure_count.
C12_SummaryCountsAddUp ==
    ReachedSummary
        => /\ Len(user_ids_to_process) = Len(users_to_process) + Cardinality(AlreadySatisfied)
           /\ Len(users_to_process) = success_count + failure_count

C12_Witness ==
    /\ ReachedSummary
    /\ action = "remove"
    /\ Cardinality(AlreadySatisfied) = 1
    /\ Len(users_to_process) = 1
    /\ failure_count = 1

\* the typed answers that are "yes" or "y" once trimmed and lower-cased
Consent == {"yes", "y", " YES "}

\* C13: without --yes and without --dry-run no mutating call is issued before
\* the prompt was answered with yes or y, and any other answer ends the run
\* with no mutating call; with --yes or --dry-run the prompt is not shown.
C13_ConfirmationGuardsMutations ==
    /\ (~skip_confirmation /\ ~dry_run)
          => /\ (org_pc = "apply" \/ mutations # <<>>) => answer \in Consent
             /\ answer \notin (Consent \cup {"none"})
                   => (org_pc = "exited" /\ mutations = <<>> /\ org_exit # 0)
    /\ (skip_confirmation \/ dry_run) => (answer = "none" /\ org_pc # "confirm")

C13_Witness ==
    /\ ~skip_confirmation
    /\ ~dry_run
    /\ answer = " YES "
    /\ Len(mutations) = 2
    /\ org_pc = "exited"

\* C14: when the username file does not exist no request of any kind is issued
\* and the run ends with exit status 1.
C14_MissingFileAbortsBeforeNetwork ==
    ~file_exists
        => /\ gets = <<>>
           /\ mutations = <<>>
           /\ org_pc \in {"main", "read_file", "exited"}
           /\ (org_pc = "exited" /\ ~interrupted) => org_exit = 1

C14_Witness ==
    /\ api_token
    /\ ~file_exists
    /\ ~interrupted
    /\ org_pc = "exited"
    /\ org_exit = 1

\* C15: when the organization fetch answers without an organization of exactly
\* the requested name (an empty list or only other names), the run ends with
\* exit status 1 after that one request: no user fetch, no mutating call.
C15_OrgNotFoundAborts ==
    (org_outcome \notin {"none", "error"} /\ \A i \in 1..Len(org_reply) : org_reply[i] # OrgName)
        => /\ org_pc = "exited"
           /\ org_exit = 1
           /\ gets = <<"org">>
           /\ mutations = <<>>

C15_Witness ==
    /\ org_reply = <<OtherOrgName>>
    /\ org_outcome = "no_exact"
    /\ org_pc = "exited"
    /\ org_exit = 1

\* the requests that ended with a RequestException
FailedCalls == {i \in 1..Len(mutations) : mutations[i].outcome = "error"}

\* C16: in the apply phase each entry of the filtered list gets exactly one
\* mutation attempt, in turn; a failed attempt is counted in failure_count and
\* the loop goes on to the remaining entries.
C16_EveryEntryAttemptedOnce ==
    /\ \A i \in 1..Len(mutations) :
          /\ i <= Len(users_to_process)
          /\ mutations[i].username = users_to_process[i][1]
          /\ mutations[i].user_id = users_to_process[i][2]
    /\ failure_count = Cardinality(FailedCalls)
    /\ ~dry_run =>
          /\ org_pc = "apply" => Len(mutations) = next_user - 1
          /\ ReachedSummary => Len(mutations) = Len(users_to_process)

C16_Witness ==
    /\ ReachedSummary
    /\ Len(users_to_process) = 2
    /\ Len(mutations) = 2
    /\ mutations[1].outcome = "error"
    /\ mutations[2].outcome = "ok"
    /\ failure_count = 1

\* a is b with some elements left out
IsSubsequence(a, b) ==
    \E f \in [1..Len(a) -> 1..Len(b)] :
        /\ \A i \in 1..Len(a) : a[i] = b[f[i]]
        /\ \A i, j \in 1..Len(a) : i < j => f[i] < f[j]

\* the lines of the file, stripped
FileNames == [i \in 1..Len(file_lines) |-> Strip(file_lines[i])]

\* C17: the mutating calls are issued in the order of the file: the users
\* handed to add_member/remove_member, and the calls sent for them, are a
\* subsequence of the file's lines, each with the id the user list gives it.
C17_CallsInFileOrder ==
    /\ IsSubsequence([i \in 1..Len(mutations) |-> mutations[i].username], FileNames)
    /\ IsSubsequence([i \in 1..Len(users_to_process) |-> users_to_process[i][1]], FileNames)
    /\ \A i \in 1..Len(mutations) : ListedAs(mutations[i].username, mutations[i].user_id)

C17_Witness ==
    /\ ReachedSummary
    /\ Len(mutations) = 2
    /\ mutations[1].username = "alice"
    /\ mutations[2].username = "bob"
    /\ FileNames = <<"alice", "bob">>

\* how many lines of the file hold this name
FileCount(name) == Cardinality({i \in 1..Len(file_lines) : Strip(file_lines[i]) = name})

\* how many mutating calls were issued for this name
CallCount(name) == Cardinality({i \in 1..Len(mutations) : mutations[i].username = name})

\* the name resolves to an id and the fetched membership calls for the change
ResolvesAndNeedsChange(name) ==
    \E id \in UserIds :
        /\ ListedAs(name, id)
        /\ action = "add" => id \notin current_members
        /\ action = "remove" => id \in current_members

\* C18: uniqueness of the input is not enforced: a name on k lines that
\* resolves and needs the change gets k mutating calls, all for the same id,
\* in a run that reaches the summary; blank lines give no item.
C18_DuplicatesProcessedEachTime ==
    /\ (ReachedSummary /\ ~dry_run)
          => \A name \in Names :
                /\ ResolvesAndNeedsChange(name) => CallCount(name) = FileCount(name)
                /\ \A i, j \in 1..Len(mutations) :
                      mutations[i].username = mutations[j].username
                          => mutations[i].user_id = mutations[j].user_id
    /\ gets # <<>> =>
          /\ Len(usernames) = Cardinality({i \in 1..Len(file_lines) : Strip(file_lines[i]) # ""})
          /\ \A i \in 1..Len(usernames) : usernames[i] # ""

C18_Witness ==
    /\ ReachedSummary
    /\ ~dry_run
    /\ FileCount("alice") = 2
    /\ CallCount("alice") = 2
    /\ mutations[1].user_id = mutations[2].user_id

\* C19: an interrupt ends the process with exit status 130, not with the
\* generic failure status 1, and no mutating call of that run follows it.
C19_InterruptExits130 ==
    [][ /\ interrupted' => (org_pc' = "exited" /\ org_exit' = 130)
        /\ (interrupted /\ run' = run) => mutations' = mutations ]_vars

C19_Witness ==
    /\ interrupted
    /\ org_exit = 130
    /\ Len(users_to_process) = 2
    /\ Len(mutations) = 1

\* the ids of the requests that the service carried out
AppliedIds == {mutations[i].user_id : i \in {j \in 1..Len(mutations) : mutations[j].outcome = "ok"}}

\* C21: no rollback: the mutations that succeeded stay in place whatever
\* happens to later ones, no compensating call is issued, and a run issues
\* only PUT when adding and only DELETE when removing.
C21_NoRollback ==
    /\ \A i \in 1..Len(mutations) :
          /\ action = "add" => mutations[i].method = "PUT"
          /\ action = "remove" => mutations[i].method = "DELETE"
    /\ Len(mutations) <= Len(users_to_process)
    /\ org_outcome = "found" =>
          remote_members = (IF action = "add" THEN current_members \cup AppliedIds
                                              ELSE current_members \ AppliedIds)

C21_Witness ==
    /\ ReachedSummary
    /\ Len(mutations) = 2
    /\ mutations[1].outcome = "ok"
    /\ mutations[2].outcome = "error"
    /\ remote_members # current_members
    /\ org_exit = 1

\* the user list was fetched and the name resolves in it
ResolvesInList(name) == \E id \in UserIds : ListedAs(name, id)

\* the resolved name is already as the action wants it
InDesiredState(name) ==
    \A id \in UserIds :
        ListedAs(name, id) => (IF action = "add" THEN id \in current_members
                                                 ELSE id \notin current_members)

NoneResolves ==
    /\ users_outcome = "ok"
    /\ usernames # <<>>
    /\ \A i \in 1..Len(usernames) : ~ResolvesInList(usernames[i])

NothingToChange ==
    /\ users_outcome = "ok"
    /\ \E i \in 1..Len(usernames) : ResolvesInList(usernames[i])
    /\ \A i \in 1..Len(usernames) :
          ResolvesInList(usernames[i]) => InDesiredState(usernames[i])

\* C26: a run in which no username resolves ends with exit status 1, a run in
\* which some username resolves and every resolved user is already in the
\* desired state ends with exit status 0; neither issues a mutating call or
\* shows the prompt.
C26_NothingToMutateEndings ==
    /\ NoneResolves => (org_pc = "exited" /\ org_exit = 1)
    /\ NothingToChange => (org_pc = "exited" /\ org_exit = 0)
    /\ (NoneResolves \/ NothingToChange)
          => (mutations = <<>> /\ answer = "none" /\ confirmed = "not_asked")

C26_Witness ==
    /\ NoneResolves
    /\ ~skip_confirmation
    /\ ~dry_run
    /\ org_pc = "exited"
    /\ org_exit = 1
    /\ mutations = <<>>

\* C27: generate_daily_report returns True only if its last request was
\* answered with a success status and the parse and the write succeeded, and
\* for every max_retries >= 0 and every sequence of outcomes it returns True
\* or False, never ending by an unhandled exception.
C27_ReturnsBooleanNeverRaises ==
    /\ usage_pc # "crashed"
    /\ \A i \in 1..Len(results) : results[i] \in {"True", "False"}
    /\ (usage_pc = "returned" /\ LastResult = "True")
          => (req_count >= 1 /\ service[req_count] = "ok" /\ csv_ok /\ xlsx_ok)

(***************************************************************************)
(* apply_billing_tags.py                                                   *)
(***************************************************************************)

\* the organization has at most MaxMembers members; userIds are 1..MaxMembers
MaxMembers == 2

\* organization.get("members", []), line 170: the userIds, in list order
MemberLists == {[i \in 1..k |-> i] : k \in 0..MaxMembers}

\* the names of the projects a member can own, as the service lists them
ProjectLists == {<<>>, <<"p1">>, <<"p1", "p2">>}

\* proj.get('id'), line 196
ProjectId(uid, name) == <<uid, name>>

\* get_projects_by_owner, lines 72-85: the project list of one owner
ProjectsOf(uid, owned) == [j \in 1..Len(owned[uid]) |-> ProjectId(uid, owned[uid][j])]

AllProjects(owned) == UNION {Range(ProjectsOf(uid, owned)) : uid \in 1..MaxMembers}

\* get_billing_tag, lines 97-105: data.get("tag"), None when there is none
TagOf(proj, tagged) == IF proj \in tagged THEN "existing_tag" ELSE None

\* an entry of the list of requests issued
Request(kind, target, outcome) == [kind |-> kind, target |-> target, outcome |-> outcome]

\* the requests that are not about one member or project
NoTarget == <<0, "">>

TagsInit ==
    /\ tags_pc = "main"
    /\ args_apply \in BOOLEAN
    /\ org_members \in MemberLists
    /\ projects_of \in [1..MaxMembers -> ProjectLists]
    /\ billing_tags \in SUBSET AllProjects(projects_of)
    /\ member_idx = 1
    /\ project_list = <<>>
    /\ proj_idx = 1
    /\ current_tag = None
    /\ tag_requests = <<>>

\* main, lines 163-171: get_organizations raises on a failed request (nothing
\* catches it) and main returns when no organization has the name
GetOrganizations ==
    /\ tags_pc = "main"
    /\ \E outcome \in {"error", "not_found", "found"} :
         /\ tag_requests' = Append(tag_requests, Request("orgs", NoTarget, outcome))
         /\ tags_pc' = CASE outcome = "error" -> "crashed"
                         [] outcome = "not_found" -> "done"
                         [] OTHER -> "get_users"
    /\ UNCHANGED <<args_apply, org_members, projects_of, billing_tags, member_idx,
                   project_list, proj_idx, current_tag>>
    /\ UNCHANGED notTags

\* main, lines 173-175: get_users raises on a failed request
GetUsers ==
    /\ tags_pc = "get_users"
    /\ \E outcome \in {"error", "ok"} :
         /\ tag_requests' = Append(tag_requests, Request("users", NoTarget, outcome))
         /\ tags_pc' = IF outcome = "ok" THEN "members" ELSE "crashed"
    /\ UNCHANGED <<args_apply, org_members, projects_of, billing_tags, member_idx,
                   project_list, proj_idx, current_tag>>
    /\ UNCHANGED notTags

\* mutant of AfterFailure: the loop is left at the first failure
AfterFailure_break(idx, len) == len + 1

\* main, lines 190 and 203: `continue` after a failed fetch
AfterFailure(idx, len) == idx + 1

\* main, lines 177-193 and 216-217: one member; its projects are fetched and
\* a failed fetch skips the member
GetProjectsByOwner ==
    /\ tags_pc = "members"
    /\ member_idx <= Len(org_members)
    /\ LET uid == org_members[member_idx]
       IN  \E outcome \in {"error", "ok"} :
             /\ tag_requests' = Append(tag_requests, Request("projects", <<uid, "">>, outcome))
             /\ IF outcome = "error"
                  THEN /\ member_idx' = AfterFailure(member_idx, Len(org_members))
                       /\ UNCHANGED <<tags_pc, project_list, proj_idx>>
                  ELSE /\ project_list' = ProjectsOf(uid, projects_of)
                       /\ IF project_list' # <<>>
                            THEN /\ tags_pc' = "projects"
                                 /\ proj_idx' = 1
                                 /\ UNCHANGED member_idx
                            ELSE /\ member_idx' = member_idx + 1
                                 /\ UNCHANGED <<tags_pc, proj_idx>>
    /\ UNCHANGED <<args_apply, org_members, projects_of, billing_tags, current_tag>>
    /\ UNCHANGED notTags

\* main, lines 194-203: one project; its billing tag is fetched and a failed
\* fetch skips the project
GetBillingTag ==
    /\ tags_pc = "projects"
    /\ proj_idx <= Len(project_list)
    /\ LET proj == project_list[proj_idx]
       IN  \E outcome \in {"error", "ok"} :
             IF outcome = "error"
               THEN /\ tag_requests' = Append(tag_requests, Request("get_tag", proj, "error"))
                    /\ proj_idx' = AfterFailure(proj_idx, Len(project_list))
                    /\ UNCHANGED <<tags_pc, current_tag>>
               ELSE /\ current_tag' = TagOf(proj, billing_tags)
                    /\ tag_requests' = Append(tag_requests,
                                          Request("get_tag", proj, current_tag'))
                    /\ tags_pc' = "tag_known"
                    /\ UNCHANGED proj_idx
    /\ UNCHANGED <<args_apply, org_members, projects_of, billing_tags, member_idx,
                   project_list>>
    /\ UNCHANGED notTags

\* main, line 205: `if current_tag` is False
IsUntagged(tag) == ~Truthy(tag)

\* mutant of IssuesPost: the mode is not looked at
IssuesPost_always(apply) == TRUE

\* main, line 208: `if args.apply`
IssuesPost(apply) == apply

\* main, lines 205-215: the tag of the project is known; assign_billing_tag
\* posts and a failed post is logged
AssignBillingTag ==
    /\ tags_pc = "tag_known"
    /\ LET proj == project_list[proj_idx]
       IN  IF IsUntagged(current_tag) /\ IssuesPost(args_apply)
             THEN \E outcome \in {"error", "ok"} :
                    /\ tag_requests' = Append(tag_requests, Request("assign", proj, outcome))
                    /\ billing_tags' = IF outcome = "ok" THEN billing_tags \cup {proj}
                                                         ELSE billing_tags
             ELSE UNCHANGED <<tag_requests, billing_tags>>
    /\ proj_idx' = proj_idx + 1
    /\ tags_pc' = "projects"
    /\ UNCHANGED <<args_apply, org_members, projects_of, member_idx, project_list,
                   current_tag>>
    /\ UNCHANGED notTags

\* main, lines 194 and 218: the projects of the member are done
NextMember ==
    /\ tags_pc = "projects"
    /\ proj_idx > Len(project_list)
    /\ member_idx' = member_idx + 1
    /\ tags_pc' = "members"
    /\ UNCHANGED <<args_apply, org_members, projects_of, billing_tags, project_list,
                   proj_idx, current_tag, tag_requests>>
    /\ UNCHANGED notTags

\* main, line 177: the members are done and main returns
TagsEnd ==
    /\ tags_pc = "members"
    /\ member_idx > Len(org_members)
    /\ tags_pc' = "done"
    /\ UNCHANGED <<args_apply, org_members, projects_of, billing_tags, member_idx,
                   project_list, proj_idx, current_tag, tag_requests>>
    /\ UNCHANGED notTags

TagsNext ==
    \/ GetOrganizations
    \/ GetUsers
    \/ GetProjectsByOwner
    \/ GetBillingTag
    \/ AssignBillingTag
    \/ NextMember
    \/ TagsEnd

InitTags ==
    TagsInit /\ UsageIdle /\ OrgIdle /\ ArchIdle /\ InvIdle
        /\ AppsIdle /\ GbpIdle /\ ModelsIdle

SpecTags == InitTags /\ [][TagsNext]_vars

(***************************************************************************)
(* Properties of apply_billing_tags.py                                     *)
(***************************************************************************)

\* the positions of tag_requests that hold a request of this kind for this target
RequestsFor(kind, target) ==
    {i \in 1..Len(tag_requests) :
        tag_requests[i].kind = kind /\ tag_requests[i].target = target}

\* the targets of the requests of this kind about this member, in order
TargetsOf(kind, uid) ==
    LET about(r) == r.kind = kind /\ r.target[1] = uid
        sel == SelectSeq(tag_requests, about)
    IN  [i \in 1..Len(sel) |-> sel[i].target]

\* the projects that had a billing tag before the run
TaggedBefore ==
    billing_tags \ {tag_requests[i].target :
                       i \in {j \in 1..Len(tag_requests) :
                                 /\ tag_requests[j].kind = "assign"
                                 /\ tag_requests[j].outcome = "ok"}}

\* C22: the assign POST is issued only in --apply mode and only for a project
\* whose tag was just fetched successfully and is empty; with --dry-run there
\* is no POST at all, and a project that has a tag is never tagged again.
C22_AssignOnlyInApplyModeForUntagged ==
    /\ \A i \in 1..Len(tag_requests) :
          tag_requests[i].kind = "assign"
              => /\ args_apply
                 /\ i > 1
                 /\ tag_requests[i - 1] = Request("get_tag", tag_requests[i].target, None)
                 /\ Cardinality(RequestsFor("assign", tag_requests[i].target)) = 1
    /\ \A p \in TaggedBefore : RequestsFor("assign", p) = {}
    /\ \A i \in 1..Len(tag_requests) :
          (tag_requests[i].kind = "get_tag" /\ tag_requests[i].outcome \notin {None, "error"})
              => RequestsFor("assign", tag_requests[i].target) = {}

C22_Witness ==
    /\ tags_pc = "done"
    /\ args_apply
    /\ \E i \in RequestsFor("assign", <<1, "p2">>) : tag_requests[i].outcome = "ok"
    /\ \E i \in RequestsFor("get_tag", <<1, "p1">>) : tag_requests[i].outcome = "existing_tag"
    /\ <<1, "p1">> \in billing_tags

\* the member loop was entered and left
AllMembersVisited ==
    /\ tags_pc = "done"
    /\ \E i \in RequestsFor("users", NoTarget) : tag_requests[i].outcome = "ok"

\* C25: a failed project fetch skips only that member, a failed tag fetch or
\* assign skips only that project: every member gets its project fetch, every
\* project of a member whose fetch succeeded gets its tag fetch, and a project
\* whose tag fetch failed gets no assign call.
C25_FailuresSkipOnlyTheirItem ==
    /\ AllMembersVisited =>
          /\ \A k \in 1..Len(org_members) :
                Cardinality(RequestsFor("projects", <<org_members[k], "">>)) = 1
          /\ \A k \in 1..Len(org_members) :
                LET uid == org_members[k]
                IN  (\E i \in RequestsFor("projects", <<uid, "">>) : tag_requests[i].outcome = "ok")
                        => TargetsOf("get_tag", uid) = ProjectsOf(uid, projects_of)
          /\ args_apply =>
                \A i \in 1..Len(tag_requests) :
                    (tag_requests[i].kind = "get_tag" /\ tag_requests[i].outcome = None)
                        => RequestsFor("assign", tag_requests[i].target) # {}
    /\ \A i \in 1..Len(tag_requests) :
          (tag_requests[i].kind = "get_tag" /\ tag_requests[i].outcome = "error")
              => RequestsFor("assign", tag_requests[i].target) = {}

C25_Witness ==
    /\ AllMembersVisited
    /\ args_apply
    /\ \E i \in RequestsFor("projects", <<1, "">>) : tag_requests[i].outcome = "error"
    /\ \E i \in RequestsFor("get_tag", <<2, "p1">>) : tag_requests[i].outcome = "error"
    /\ \E i \in RequestsFor("assign", <<2, "p2">>) : tag_requests[i].outcome = "error"

(***************************************************************************)
(* archive_environments.py                                                 *)
(***************************************************************************)

\* the file lists at most MaxEnvs environment ids
MaxEnvs == 2

EnvIds == {"e1", "e2"}

\* an entry of the list of operations issued on an environment
EnvOp(kind, env_id, outcome) == [kind |-> kind, env |-> env_id, outcome |-> outcome]

\* `environments` holds the non-blank lines of the file (read_environments,
\* lines 126-129) from the start; main reads them on line 148
ArchInit ==
    /\ arch_pc = "main"
    /\ args_dry_run \in BOOLEAN
    /\ args_archive \in BOOLEAN
    /\ args_unarchive \in BOOLEAN
    /\ domino_url \in BOOLEAN
    /\ mongo_credentials \in BOOLEAN
    /\ env_file_exists \in BOOLEAN
    /\ environments \in (IF env_file_exists THEN SeqsUpTo(EnvIds, MaxEnvs) ELSE {<<>>})
    /\ env_idx = 1
    /\ env_name = None
    /\ env_ops = <<>>

\* main, line 158: `args.dry_run or args.archive or args.unarchive`
OptionSelected(dry, archive, unarchive) == dry \/ archive \/ unarchive

\* main, lines 138-161: the checks before the loop.  open() raises when the
\* file is missing, connect_mongo returns None without the credentials.
ArchStart ==
    /\ arch_pc = "main"
    /\ arch_pc' = CASE ~domino_url -> "done"
                    [] ~env_file_exists -> "crashed"
                    [] args_unarchive /\ ~mongo_credentials -> "done"
                    [] ~OptionSelected(args_dry_run, args_archive, args_unarchive) -> "done"
                    [] OTHER -> "loop"
    /\ UNCHANGED <<args_dry_run, args_archive, args_unarchive, domino_url, mongo_credentials,
                   env_file_exists, environments, env_idx, env_name, env_ops>>
    /\ UNCHANGED notArch

\* main, line 165: `args.unarchive and mongo_db is not None`; mongo_db is a
\* database whenever the loop is reached with --unarchive
TakesUnarchiveBranch(unarchive) == unarchive

\* main, lines 165-166, and unarchive_environment, lines 101-123: update_one
\* on environments_v2; an exception is caught and logged
UnarchiveEnvironment ==
    /\ arch_pc = "loop"
    /\ env_idx <= Len(environments)
    /\ TakesUnarchiveBranch(args_unarchive)
    /\ \E outcome \in {"matched", "no_match", "error"} :
         env_ops' = Append(env_ops, EnvOp("update_one", environments[env_idx], outcome))
    /\ env_idx' = env_idx + 1
    /\ UNCHANGED <<arch_pc, args_dry_run, args_archive, args_unarchive, domino_url,
                   mongo_credentials, env_file_exists, environments, env_name>>
    /\ UNCHANGED notArch

\* main, lines 167-170 and 176-178, and get_environment_details, lines 56-72:
\* the name of the environment, None when the list does not hold the id or
\* the status is not 200; a transport error is not caught
GetEnvironmentDetails ==
    /\ arch_pc = "loop"
    /\ env_idx <= Len(environments)
    /\ ~TakesUnarchiveBranch(args_unarchive)
    /\ \E outcome \in {"found", "not_found", "status", "raised"} :
         /\ env_ops' = Append(env_ops, EnvOp("get", environments[env_idx], outcome))
         /\ env_name' = IF outcome = "found" THEN "name" ELSE None
         /\ arch_pc' = CASE outcome = "raised" -> "crashed"
                         [] outcome = "found" -> "named"
                         [] OTHER -> "loop"
         /\ env_idx' = IF outcome \in {"not_found", "status"} THEN env_idx + 1 ELSE env_idx
    /\ UNCHANGED <<args_dry_run, args_archive, args_unarchive, domino_url,
                   mongo_credentials, env_file_exists, environments>>
    /\ UNCHANGED notArch

\* main, lines 170-175, and archive_environment, lines 75-98: the dry-run
\* report, or the DELETE request of --archive
ArchiveEnvironment ==
    /\ arch_pc = "named"
    /\ IF args_dry_run
         THEN /\ arch_pc' = "loop"
              /\ UNCHANGED env_ops
         ELSE IF args_archive
           THEN \E outcome \in {"archived", "refused", "status", "raised"} :
                  /\ env_ops' = Append(env_ops, EnvOp("delete", environments[env_idx], outcome))
                  /\ arch_pc' = IF outcome = "raised" THEN "crashed" ELSE "loop"
           ELSE /\ arch_pc' = "loop"
                /\ UNCHANGED env_ops
    /\ env_idx' = env_idx + 1
    /\ UNCHANGED <<args_dry_run, args_archive, args_unarchive, domino_url,
                   mongo_credentials, env_file_exists, environments, env_name>>
    /\ UNCHANGED notArch

\* main, line 164: the loop is over
ArchEnd ==
    /\ arch_pc = "loop"
    /\ env_idx > Len(environments)
    /\ arch_pc' = "done"
    /\ UNCHANGED <<args_dry_run, args_archive, args_unarchive, domino_url, mongo_credentials,
                   env_file_exists, environments, env_idx, env_name, env_ops>>
    /\ UNCHANGED notArch

ArchNext ==
    \/ ArchStart
    \/ UnarchiveEnvironment
    \/ GetEnvironmentDetails
    \/ ArchiveEnvironment
    \/ ArchEnd

InitArch ==
    ArchInit /\ UsageIdle /\ OrgIdle /\ TagsIdle /\ InvIdle
        /\ AppsIdle /\ GbpIdle /\ ModelsIdle

SpecArch == InitArch /\ [][ArchNext]_vars

(***************************************************************************)
(* Properties of archive_environments.py                                   *)
(***************************************************************************)

\* the operations that change an environment
MutatingOps == {"delete", "update_one"}

\* C23: with --dry-run no mutating operation is performed on any environment,
\* whatever other flags are given: no archive DELETE and no MongoDB update.
C23_DryRunNeverMutates ==
    args_dry_run => \A i \in 1..Len(env_ops) : env_ops[i].kind \notin MutatingOps

(***************************************************************************)
(* submit_inventory_jobs.py                                                *)
(***************************************************************************)

\* the service lists at most MaxListed environments; their ids are 1, 2, ...
MaxListed == 3

\* the values of --restrict: negative, zero, up to more than any list holds
Restricts == (0 - 1)..(MaxListed + 1)

Min(a, b) == IF a <= b THEN a ELSE b

Max(a, b) == IF a >= b THEN a ELSE b

\* Python's seq[:n]: the first n elements, or all but the last -n when n < 0
SliceTo(seq, n) ==
    LET len == IF n >= 0 THEN Min(n, Len(seq)) ELSE Max(Len(seq) + n, 0)
    IN  SubSeq(seq, 1, len)

\* lines 51-52: `if job_limit:` is False for None and for 0
Restricted(given, limit, envs) ==
    IF given /\ limit # 0 THEN SliceTo(envs, limit) ELSE envs

InvInit ==
    /\ inv_pc = "main"
    /\ restrict_given \in BOOLEAN
    /\ job_limit \in (IF restrict_given THEN Restricts ELSE {0})
    /\ inv_env_set \in BOOLEAN
    /\ listed_envs \in {[i \in 1..k |-> i] : k \in 0..MaxListed}
    /\ filtered_envs = <<>>
    /\ job_idx = 1
    /\ job_requests = <<>>
    /\ inv_exit = -1

\* lines 13-19: the three environment variables are required
InvStart ==
    /\ inv_pc = "main"
    /\ IF inv_env_set
         THEN /\ inv_pc' = "fetch"
              /\ UNCHANGED inv_exit
         ELSE /\ inv_pc' = "exited"
              /\ inv_exit' = 1
    /\ UNCHANGED <<restrict_given, job_limit, inv_env_set, listed_envs, filtered_envs,
                   job_idx, job_requests>>
    /\ UNCHANGED notInv

\* lines 29-54: the environments are fetched (a status other than 200 exits
\* with 1, a transport error is not caught), copied and restricted
FetchEnvironments ==
    /\ inv_pc = "fetch"
    /\ \E outcome \in {"ok", "status", "raised"} :
         IF outcome = "ok"
           THEN /\ filtered_envs' = Restricted(restrict_given, job_limit, listed_envs)
                /\ inv_pc' = "jobs"
                /\ UNCHANGED inv_exit
           ELSE /\ inv_pc' = "exited"
                /\ inv_exit' = 1
                /\ UNCHANGED filtered_envs
    /\ UNCHANGED <<restrict_given, job_limit, inv_env_set, listed_envs, job_idx,
                   job_requests>>
    /\ UNCHANGED notInv

\* lines 59-75: one job-start request; a status other than 200 is printed, a
\* transport error is not caught
StartJob ==
    /\ inv_pc = "jobs"
    /\ job_idx <= Len(filtered_envs)
    /\ \E outcome \in {"started", "status", "raised"} :
         /\ job_requests' = Append(job_requests,
                                   [env |-> filtered_envs[job_idx], outcome |-> outcome])
         /\ IF outcome = "raised"
              THEN /\ inv_pc' = "exited"
                   /\ inv_exit' = 1
                   /\ UNCHANGED job_idx
              ELSE /\ job_idx' = job_idx + 1
                   /\ UNCHANGED <<inv_pc, inv_exit>>
    /\ UNCHANGED <<restrict_given, job_limit, inv_env_set, listed_envs, filtered_envs>>
    /\ UNCHANGED notInv

\* line 59: the loop is over and the script ends
InvEnd ==
    /\ inv_pc = "jobs"
    /\ job_idx > Len(filtered_envs)
    /\ inv_pc' = "exited"
    /\ inv_exit' = 0
    /\ UNCHANGED <<restrict_given, job_limit, inv_env_set, listed_envs, filtered_envs,
                   job_idx, job_requests>>
    /\ UNCHANGED notInv

InvNext ==
    \/ InvStart
    \/ FetchEnvironments
    \/ StartJob
    \/ InvEnd

InitInv ==
    InvInit /\ UsageIdle /\ OrgIdle /\ TagsIdle /\ ArchIdle
        /\ AppsIdle /\ GbpIdle /\ ModelsIdle

SpecInv == InitInv /\ [][InvNext]_vars

(***************************************************************************)
(* Properties of submit_inventory_jobs.py                                  *)
(***************************************************************************)

\* the job loop ran to its end
AllJobsSubmitted == inv_pc = "exited" /\ inv_exit = 0

\* C24: --restrict N bounds the number of jobs: min(N, E) job-start requests
\* are issued, for the first min(N, E) of the E environments in API order;
\* without --restrict there is one request per environment.  (Read for
\* N >= 0 and for runs in which no request raised.)
C24_RestrictBoundsJobs ==
    AllJobsSubmitted
        => LET count == IF restrict_given /\ job_limit >= 0
                          THEN Min(job_limit, Len(listed_envs))
                          ELSE Len(listed_envs)
           IN  (~restrict_given \/ job_limit >= 0)
                   => /\ Len(job_requests) = count
                      /\ \A i \in 1..Len(job_requests) : job_requests[i].env = listed_envs[i]

(***************************************************************************)
(* manage_apps.py                                                          *)
(***************************************************************************)

\* the service lists at most MaxApps apps
MaxApps == 2

\* the apps the service can list: a complete one, one without environmentId,
\* one without id
AppCatalogue ==
    { [id |-> "a1", name |-> "one",   environmentId |-> "env1", hardwareTierId |-> "small"],
      [id |-> "a2", name |-> "two",   environmentId |-> "",     hardwareTierId |-> "small"],
      [id |-> "",   name |-> "three", environmentId |-> "env1", hardwareTierId |-> "small"] }

\* an app as /v4/modelProducts returns it
WithStatus(app, status) ==
    [id |-> app.id, name |-> app.name, status |-> status,
     environmentId |-> app.environmentId, hardwareTierId |-> app.hardwareTierId]

\* the lists of at most MaxApps different apps, each Running or Stopped
AppLists ==
    {l \in UNION {[1..k -> {WithStatus(a, st) : a \in AppCatalogue, st \in {"Running", "Stopped"}}]
                      : k \in 0..MaxApps} :
        \A i, j \in 1..Len(l) : i # j => l[i].name # l[j].name}

\* write_to_csv, lines 63-78: the row of an app
CsvRow(app) ==
    [name |-> app.name, status |-> app.status, modelProductId |-> app.id,
     environmentId |-> app.environmentId, hardwareTierId |-> app.hardwareTierId]

CsvRows(apps) == [i \in 1..Len(apps) |-> CsvRow(apps[i])]

\* the service after it carried out a stop or a start request for this id
SetStatus(apps, id, status) ==
    [i \in 1..Len(apps) |-> IF apps[i].id = id THEN WithStatus(apps[i], status) ELSE apps[i]]

\* an entry of the list of requests issued: the id in the url, the status the
\* app had in the list or file it was taken from, the answer of the service
AppRequest(kind, id, listed, outcome) ==
    [kind |-> kind, id |-> id, listed |-> listed, outcome |-> outcome]

AppsInit ==
    /\ apps_pc = "main"
    /\ apps_run = 1
    /\ api_key \in BOOLEAN
    /\ opt_list \in BOOLEAN
    /\ opt_stop \in BOOLEAN
    /\ opt_dry_run \in BOOLEAN
    /\ opt_start_all_stopped \in BOOLEAN
    /\ remote_apps \in AppLists
    /\ stopped_csv = <<>>
    /\ running_apps = <<>>
    /\ confirmation = "none"
    /\ stopped_apps = <<>>
    /\ csv_written = FALSE
    /\ app_idx = 1
    /\ rows_read = <<>>
    /\ app_requests = <<>>

\* lines 8-11: without the API key the module raises ValueError
AppsStart ==
    /\ apps_pc = "main"
    /\ apps_pc' = IF api_key THEN "fetch" ELSE "crashed"
    /\ UNCHANGED <<apps_run, api_key, opt_list, opt_stop, opt_dry_run, opt_start_all_stopped,
                   remote_apps, stopped_csv, running_apps, confirmation, stopped_apps,
                   csv_written, app_idx, rows_read, app_requests>>
    /\ UNCHANGED notApps

\* fetch_running_apps, line 37: app.get("status") == "Running"
IsRunning(app) == app.status = "Running"

\* main, line 131, fetch_running_apps and fetch_all_apps, lines 22-38: the
\* running apps; a status other than 200 gives no app, a transport error is
\* not caught
FetchRunningApps ==
    /\ apps_pc = "fetch"
    /\ \E outcome \in {"ok", "status", "raised"} :
         /\ running_apps' = IF outcome = "ok" THEN SelectSeq(remote_apps, IsRunning) ELSE <<>>
         /\ apps_pc' = IF outcome = "raised" THEN "crashed" ELSE "list"
    /\ UNCHANGED <<apps_run, api_key, opt_list, opt_stop, opt_dry_run, opt_start_all_stopped,
                   remote_apps, stopped_csv, confirmation, stopped_apps, csv_written, app_idx,
                   rows_read, app_requests>>
    /\ UNCHANGED notApps

\* main, lines 132-148: the second fetch and --list, which prints the running
\* apps and writes all apps to the file of --output
ListApps ==
    /\ apps_pc = "list"
    /\ \E outcome \in {"ok", "raised"} :
         apps_pc' = IF outcome = "raised" THEN "crashed" ELSE "stop"
    /\ UNCHANGED <<apps_run, api_key, opt_list, opt_stop, opt_dry_run, opt_start_all_stopped,
                   remote_apps, stopped_csv, running_apps, confirmation, stopped_apps,
                   csv_written, app_idx, rows_read, app_requests>>
    /\ UNCHANGED notApps

\* what the user can type at "Are you sure you want to stop all running apps?"
StopAnswers == {"yes", "YES", "y", "no"}

\* str.lower() on the answers of the model
Lower(typed) == IF typed = "YES" THEN "yes" ELSE typed

\* main, line 153: confirmation.lower() == "yes"
Confirmed(typed) == Lower(typed) = "yes"

\* main, lines 150-165: --stop; in a dry run the apps are printed, otherwise
\* the user is asked (an end of input at the prompt is not caught)
ConfirmStop ==
    /\ apps_pc = "stop"
    /\ IF ~opt_stop \/ opt_dry_run
         THEN /\ apps_pc' = "start"
              /\ UNCHANGED confirmation
         ELSE \E typed \in StopAnswers \cup {"EOFError"} :
                /\ confirmation' = typed
                /\ apps_pc' = CASE typed = "EOFError" -> "crashed"
                                [] Confirmed(typed) -> "stopping"
                                [] OTHER -> "start"
    /\ UNCHANGED <<apps_run, api_key, opt_list, opt_stop, opt_dry_run, opt_start_all_stopped,
                   remote_apps, stopped_csv, running_apps, stopped_apps, csv_written, app_idx,
                   rows_read, app_requests>>
    /\ UNCHANGED notApps

\* Python's truth value of a string
NonEmpty(text) == text # ""

\* stop_apps, lines 43-55: one app of running_apps; an app without id is
\* skipped, a request answered with 200 marks the app "Stopped" and keeps it
StopApp ==
    /\ apps_pc = "stopping"
    /\ app_idx <= Len(running_apps)
    /\ LET app == running_apps[app_idx]
       IN  IF NonEmpty(app.id)
             THEN \E outcome \in {"200", "status", "raised"} :
                    /\ app_requests' = Append(app_requests,
                                              AppRequest("stop", app.id, app.status, outcome))
                    /\ apps_pc' = IF outcome = "raised" THEN "crashed" ELSE "stopping"
                    /\ IF outcome = "200"
                         THEN /\ stopped_apps' = Append(stopped_apps, WithStatus(app, "Stopped"))
                              /\ running_apps' = [running_apps EXCEPT
                                                     ![app_idx] = WithStatus(app, "Stopped")]
                              /\ remote_apps' = SetStatus(remote_apps, app.id, "Stopped")
                         ELSE UNCHANGED <<stopped_apps, running_apps, remote_apps>>
             ELSE UNCHANGED <<app_requests, apps_pc, stopped_apps, running_apps, remote_apps>>
    /\ app_idx' = app_idx + 1
    /\ UNCHANGED <<apps_run, api_key, opt_list, opt_stop, opt_dry_run, opt_start_all_stopped,
                   stopped_csv, confirmation, csv_written, rows_read>>
    /\ UNCHANGED notApps

\* mutant of WrittenRows: every app that was asked to stop is written
WrittenRows_all(stopped, running) == CsvRows(running)

\* main, line 155: write_to_csv(stopped_apps, args.stopped_output)
WrittenRows(stopped, running) == CsvRows(stopped)

\* main, lines 154-156, and write_to_csv, lines 58-81: the stopped apps are
\* written; an error at open() is logged and leaves the file as it was
WriteStoppedCsv ==
    /\ apps_pc = "stopping"
    /\ app_idx > Len(running_apps)
    /\ \E outcome \in {"ok", "error"} :
         IF outcome = "ok"
           THEN /\ stopped_csv' = WrittenRows(stopped_apps, running_apps)
                /\ csv_written' = TRUE
           ELSE UNCHANGED <<stopped_csv, csv_written>>
    /\ apps_pc' = "start"
    /\ UNCHANGED <<apps_run, api_key, opt_list, opt_stop, opt_dry_run, opt_start_all_stopped,
                   remote_apps, running_apps, confirmation, stopped_apps, app_idx, rows_read,
                   app_requests>>
    /\ UNCHANGED notApps

\* main, lines 167-173, and read_stopped_apps_csv, lines 83-93: the rows of
\* the file; an error while reading is logged and gives no row
ReadStoppedCsv ==
    /\ apps_pc = "start"
    /\ IF opt_start_all_stopped
         THEN \E outcome \in {"ok", "error"} :
                /\ rows_read' = IF outcome = "ok" THEN stopped_csv ELSE <<>>
                /\ apps_pc' = IF rows_read' # <<>> THEN "starting" ELSE "done"
         ELSE /\ apps_pc' = "done"
              /\ UNCHANGED rows_read
    /\ app_idx' = 1
    /\ UNCHANGED <<apps_run, api_key, opt_list, opt_stop, opt_dry_run, opt_start_all_stopped,
                   remote_apps, stopped_csv, running_apps, confirmation, stopped_apps,
                   csv_written, app_requests>>
    /\ UNCHANGED notApps

\* start_stopped_apps, lines 97-115: one row; a row without one of the three
\* ids is skipped
StartApp ==
    /\ apps_pc = "starting"
    /\ app_idx <= Len(rows_read)
    /\ LET row == rows_read[app_idx]
       IN  IF NonEmpty(row.modelProductId) /\ NonEmpty(row.environmentId)
                /\ NonEmpty(row.hardwareTierId)
             THEN \E outcome \in {"200", "status", "raised"} :
                    /\ app_requests' = Append(app_requests,
                                  AppRequest("start", row.modelProductId, row.status, outcome))
                    /\ apps_pc' = IF outcome = "raised" THEN "crashed" ELSE "starting"
                    /\ remote_apps' = IF outcome = "200"
                                        THEN SetStatus(remote_apps, row.modelProductId, "Running")
                                        ELSE remote_apps
             ELSE UNCHANGED <<app_requests, apps_pc, remote_apps>>
    /\ app_idx' = app_idx + 1
    /\ UNCHANGED <<apps_run, api_key, opt_list, opt_stop, opt_dry_run, opt_start_all_stopped,
                   stopped_csv, running_apps, confirmation, stopped_apps, csv_written,
                   rows_read>>
    /\ UNCHANGED notApps

\* main, line 171: every row was handled
AppsEnd ==
    /\ apps_pc = "starting"
    /\ app_idx > Len(rows_read)
    /\ apps_pc' = "done"
    /\ UNCHANGED <<apps_run, api_key, opt_list, opt_stop, opt_dry_run, opt_start_all_stopped,
                   remote_apps, stopped_csv, running_apps, confirmation, stopped_apps,
                   csv_written, app_idx, rows_read, app_requests>>
    /\ UNCHANGED notApps

\* the script is started again, with other options, against the service and
\* the stopped-apps file as the previous run left them
AppsRerun ==
    /\ apps_pc = "done"
    /\ apps_run < MaxRuns
    /\ apps_run' = apps_run + 1
    /\ apps_pc' = "main"
    /\ opt_list' \in BOOLEAN
    /\ opt_stop' \in BOOLEAN
    /\ opt_dry_run' \in BOOLEAN
    /\ opt_start_all_stopped' \in BOOLEAN
    /\ running_apps' = <<>>
    /\ confirmation' = "none"
    /\ stopped_apps' = <<>>
    /\ csv_written' = FALSE
    /\ app_idx' = 1
    /\ rows_read' = <<>>
    /\ app_requests' = <<>>
    /\ UNCHANGED <<api_key, remote_apps, stopped_csv>>
    /\ UNCHANGED notApps

AppsNext ==
    \/ AppsStart
    \/ FetchRunningApps
    \/ ListApps
    \/ ConfirmStop
    \/ StopApp
    \/ WriteStoppedCsv
    \/ ReadStoppedCsv
    \/ StartApp
    \/ AppsEnd
    \/ AppsRerun

InitApps ==
    AppsInit /\ UsageIdle /\ OrgIdle /\ TagsIdle /\ ArchIdle
        /\ InvIdle /\ GbpIdle /\ ModelsIdle

SpecApps == InitApps /\ [][AppsNext]_vars

(***************************************************************************)
(* Properties of manage_apps.py                                            *)
(***************************************************************************)

\* the ids of the apps whose stop request was answered with 200, in order
StoppedIds ==
    LET ok(r) == r.kind = "stop" /\ r.outcome = "200"
        sel == SelectSeq(app_requests, ok)
    IN  [i \in 1..Len(sel) |-> sel[i].id]

\* C28: a stop request is sent only for an app listed as "Running", only
\* without --dry-run and only after the answer "yes"; the stopped-apps file
\* the run writes holds exactly the apps whose stop request returned 200, in
\* that order; start requests go only to apps of that file.
C28_StopOnlyRunningCsvHoldsStopped ==
    /\ \A i \in 1..Len(app_requests) :
          app_requests[i].kind = "stop"
              => /\ app_requests[i].listed = "Running"
                 /\ opt_stop
                 /\ ~opt_dry_run
                 /\ confirmation \in {"yes", "YES"}
    /\ csv_written =>
          /\ [i \in 1..Len(stopped_csv) |-> stopped_csv[i].modelProductId] = StoppedIds
          /\ \A i \in 1..Len(stopped_csv) : stopped_csv[i].status = "Stopped"
    /\ \A i \in 1..Len(app_requests) :
          app_requests[i].kind = "start"
              => /\ \E j \in 1..Len(stopped_csv) :
                       stopped_csv[j].modelProductId = app_requests[i].id
                 /\ csv_written => app_requests[i].id \in Range(StoppedIds)

C28_Witness ==
    /\ apps_pc = "done"
    /\ csv_written
    /\ confirmation = "YES"
    /\ Len(running_apps) = 2
    /\ Len(stopped_csv) = 1
    /\ \E i \in 1..Len(app_requests) :
          app_requests[i].kind = "stop" /\ app_requests[i].outcome = "status"
    /\ \E i \in 1..Len(app_requests) :
          app_requests[i].kind = "start" /\ app_requests[i].outcome = "200"

(***************************************************************************)
(* create_gbp_and_schjob.py                                                *)
(***************************************************************************)

\* the ids the service can give to a new git credential and to a new project
CredentialIds == {"g1", "g2", "g3"}
ProjectIds == {"pr1", "pr2", "pr3"}

\* how a request can end: status 200 with the expected body, status 200 with
\* a body without 'id', another status, a transport error
StepOutcomes == {"200", "200_no_id", "status", "raised"}

\* an entry of the list of requests issued, with the ids it was built from
GbpRequest(step, uid, cred, proj, outcome) ==
    [step |-> step, user_id |-> uid, credential_id |-> cred, project_id |-> proj,
     outcome |-> outcome]

GbpInit ==
    /\ gbp_pc = "main"
    /\ gbp_api_key \in BOOLEAN
    /\ args_username \in Names
    /\ gbp_user_id = None
    /\ gbp_git_provider_id = None
    /\ gbp_project_id = None
    /\ gbp_requests = <<>>
    /\ gbp_created = {}
    /\ gbp_exit = -1

\* sys.exit(1) of a failed step; an uncaught exception ends the process with
\* status 1 as well
GbpFail ==
    /\ gbp_pc' = "exited"
    /\ gbp_exit' = 1

\* main, lines 141-145: the API key is required
GbpStart ==
    /\ gbp_pc = "main"
    /\ IF gbp_api_key
         THEN /\ gbp_pc' = "lookup_user"
              /\ UNCHANGED gbp_exit
         ELSE GbpFail
    /\ UNCHANGED <<gbp_api_key, args_username, gbp_user_id, gbp_git_provider_id, gbp_project_id,
                   gbp_requests, gbp_created>>
    /\ UNCHANGED notGbp

\* mutant of Proceeds: the answer of the step is not looked at
Proceeds_always(outcome) == TRUE

\* lines 25, 55, 88 and 123: `response.status_code == 200`, with a body that
\* holds what main reads from it
Proceeds(outcome) == outcome = "200"

\* main, lines 147-148, and lookup_user, lines 17-37: the user of the name;
\* an empty list ends the process like another status
LookupUser ==
    /\ gbp_pc = "lookup_user"
    /\ \E outcome \in StepOutcomes \cup {"200_empty"} :
         /\ gbp_requests' = Append(gbp_requests,
                                   GbpRequest("lookup_user", None, None, None, outcome))
         /\ IF Proceeds(outcome)
              THEN /\ gbp_user_id' = UserIdOf(args_username)
                   /\ gbp_pc' = "create_git_provider"
                   /\ UNCHANGED gbp_exit
              ELSE /\ GbpFail
                   /\ UNCHANGED gbp_user_id
    /\ UNCHANGED <<gbp_api_key, args_username, gbp_git_provider_id, gbp_project_id, gbp_created>>
    /\ UNCHANGED notGbp

\* main, lines 151-152, and create_git_provider, lines 39-62
CreateGitProvider ==
    /\ gbp_pc = "create_git_provider"
    /\ \E outcome \in StepOutcomes, id \in CredentialIds :
         /\ gbp_requests' = Append(gbp_requests,
                               GbpRequest("create_git_provider", gbp_user_id, None, None, outcome))
         /\ gbp_created' = IF outcome \in {"200", "200_no_id"}
                             THEN gbp_created \cup {"git_credential"} ELSE gbp_created
         /\ IF Proceeds(outcome)
              THEN /\ gbp_git_provider_id' = id
                   /\ gbp_pc' = "create_project"
                   /\ UNCHANGED gbp_exit
              ELSE /\ GbpFail
                   /\ UNCHANGED gbp_git_provider_id
    /\ UNCHANGED <<gbp_api_key, args_username, gbp_user_id, gbp_project_id>>
    /\ UNCHANGED notGbp

\* main, lines 155-156, and create_project, lines 64-95
CreateProject ==
    /\ gbp_pc = "create_project"
    /\ \E outcome \in StepOutcomes, id \in ProjectIds :
         /\ gbp_requests' = Append(gbp_requests,
                       GbpRequest("create_project", gbp_user_id, gbp_git_provider_id, None, outcome))
         /\ gbp_created' = IF outcome \in {"200", "200_no_id"}
                             THEN gbp_created \cup {"project"} ELSE gbp_created
         /\ IF Proceeds(outcome)
              THEN /\ gbp_project_id' = id
                   /\ gbp_pc' = "schedule_job"
                   /\ UNCHANGED gbp_exit
              ELSE /\ GbpFail
                   /\ UNCHANGED gbp_project_id
    /\ UNCHANGED <<gbp_api_key, args_username, gbp_user_id, gbp_git_provider_id>>
    /\ UNCHANGED notGbp

\* main, line 159, and schedule_job, lines 97-128; the body of the answer is
\* not read; after it main returns
ScheduleJob ==
    /\ gbp_pc = "schedule_job"
    /\ \E outcome \in StepOutcomes \ {"200_no_id"} :
         /\ gbp_requests' = Append(gbp_requests,
                       GbpRequest("schedule_job", gbp_user_id, None, gbp_project_id, outcome))
         /\ gbp_created' = IF outcome = "200"
                             THEN gbp_created \cup {"scheduled_job"} ELSE gbp_created
         /\ IF Proceeds(outcome)
              THEN /\ gbp_pc' = "exited"
                   /\ gbp_exit' = 0
              ELSE GbpFail
    /\ UNCHANGED <<gbp_api_key, args_username, gbp_user_id, gbp_git_provider_id, gbp_project_id>>
    /\ UNCHANGED notGbp

GbpNext ==
    \/ GbpStart
    \/ LookupUser
    \/ CreateGitProvider
    \/ CreateProject
    \/ ScheduleJob

InitGbp ==
    GbpInit /\ UsageIdle /\ OrgIdle /\ TagsIdle /\ ArchIdle
        /\ InvIdle /\ AppsIdle /\ ModelsIdle

SpecGbp == InitGbp /\ [][GbpNext]_vars

(***************************************************************************)
(* Properties of create_gbp_and_schjob.py                                  *)
(***************************************************************************)

StepOrder == <<"lookup_user", "create_git_provider", "create_project", "schedule_job">>

\* what the steps answered with 200 created
CreatedBy200 ==
    {CASE gbp_requests[i].step = "create_git_provider" -> "git_credential"
       [] gbp_requests[i].step = "create_project" -> "project"
       [] OTHER -> "scheduled_job" :
         i \in {j \in 1..Len(gbp_requests) :
                   /\ gbp_requests[j].step # "lookup_user"
                   /\ gbp_requests[j].outcome \in {"200", "200_no_id"}}}

\* C29: the steps run in the order user lookup, git credential, project,
\* scheduled job; a step is attempted only if every earlier step returned
\* status 200; a failing step ends the process with exit status 1, and what
\* earlier steps created stays, with no request to undo it.
C29_StepsInOrderFailFast ==
    /\ Len(gbp_requests) <= Len(StepOrder)
    /\ \A i \in 1..Len(gbp_requests) : gbp_requests[i].step = StepOrder[i]
    /\ \A i \in 1..(Len(gbp_requests) - 1) : gbp_requests[i].outcome = "200"
    /\ (Len(gbp_requests) >= 1 /\ gbp_requests[Len(gbp_requests)].outcome # "200")
          => (gbp_pc = "exited" /\ gbp_exit = 1)
    /\ gbp_exit = 0 => (Len(gbp_requests) = 4 /\ gbp_requests[4].outcome = "200")
    /\ gbp_created = CreatedBy200

C29_Witness ==
    /\ gbp_pc = "exited"
    /\ gbp_exit = 1
    /\ Len(gbp_requests) = 3
    /\ gbp_requests[3].outcome = "status"
    /\ gbp_requests[3].credential_id = gbp_git_provider_id
    /\ gbp_created = {"git_credential"}

(***************************************************************************)
(* manage_model_api.py and manage_model_api_by_proejctid.py                *)
(***************************************************************************)

\* the service has at most MaxModelProjects projects, with ids 1, 2, ...
MaxModelProjects == 2

Scripts == {"manage_model_api", "manage_model_api_by_proejctid"}

\* the activeVersionStatus of the models of a project, in API order
StatusLists == {<<>>, <<"Running">>, <<"Stopped", "Running">>, <<"Failed">>}

\* fetch_models: the models of a project as the service lists them
ModelsOf(project, statuses) ==
    [j \in 1..Len(statuses[project]) |->
        [id |-> <<project, j>>, activeVersionStatus |-> statuses[project][j]]]

\* the service after it carried out a start or a stop request
SetModelStatus(statuses, id, status) ==
    [statuses EXCEPT ![id[1]] = [@ EXCEPT ![id[2]] = status]]

ModelsInit ==
    /\ models_pc = "main"
    /\ script \in Scripts
    /\ models_api_key \in BOOLEAN
    /\ operation \in {"show", "start", "stop"}
    /\ args_project_id \in (IF script = "manage_model_api" THEN {1} ELSE 1..MaxModelProjects)
    /\ remote_models \in [1..MaxModelProjects -> StatusLists]
    /\ projects = <<>>
    /\ project_idx = 1
    /\ models = <<>>
    /\ model_idx = 1
    /\ fetched_models = <<>>
    /\ model_requests = <<>>

\* lines 8-11 of both scripts: without the API key the module raises
\* ValueError; manage_model_api_by_proejctid handles the one project of its
\* argument (main, lines 90-107)
ModelsStart ==
    /\ models_pc = "main"
    /\ IF ~models_api_key
         THEN /\ models_pc' = "crashed"
              /\ UNCHANGED projects
         ELSE IF script = "manage_model_api"
           THEN /\ models_pc' = "fetch_projects"
                /\ UNCHANGED projects
           ELSE /\ models_pc' = "project"
                /\ projects' = <<args_project_id>>
    /\ UNCHANGED <<script, models_api_key, operation, args_project_id, remote_models,
                   project_idx, models, model_idx, fetched_models, model_requests>>
    /\ UNCHANGED notModels

\* manage_model_api: main, lines 99-102, and fetch_projects, lines 22-30; a
\* status other than 200 gives no project, a transport error is not caught
FetchProjects ==
    /\ models_pc = "fetch_projects"
    /\ \E outcome \in {"ok", "status", "raised"}, count \in 0..MaxModelProjects :
         /\ projects' = IF outcome = "ok" THEN [i \in 1..count |-> i] ELSE <<>>
         /\ models_pc' = CASE outcome = "raised" -> "crashed"
                           [] projects' = <<>> -> "done"
                           [] OTHER -> "project"
    /\ UNCHANGED <<script, models_api_key, operation, args_project_id, remote_models,
                   project_idx, models, model_idx, fetched_models, model_requests>>
    /\ UNCHANGED notModels

\* main, lines 104-114 and 124-125 (92-96 and 106-107 of by_proejctid), and
\* fetch_models: the models of one project; show prints them, start and stop
\* go through them
FetchModels ==
    /\ models_pc = "project"
    /\ project_idx <= Len(projects)
    /\ \E outcome \in {"ok", "status", "raised"} :
         /\ models' = IF outcome = "ok" THEN ModelsOf(projects[project_idx], remote_models)
                                        ELSE <<>>
         /\ fetched_models' = fetched_models \o models'
         /\ IF outcome = "raised"
              THEN /\ models_pc' = "crashed"
                   /\ UNCHANGED <<project_idx, model_idx>>
              ELSE IF operation = "show" \/ models' = <<>>
                THEN /\ project_idx' = project_idx + 1
                     /\ UNCHANGED <<models_pc, model_idx>>
                ELSE /\ models_pc' = "models"
                     /\ model_idx' = 1
                     /\ UNCHANGED project_idx
    /\ UNCHANGED <<script, models_api_key, operation, args_project_id, remote_models,
                   projects, model_requests>>
    /\ UNCHANGED notModels

\* main, line 120: `args.operation == "start"`
SendsStart(op, status) == op = "start"

\* mutant of SendsStop: the status of the active version is not looked at
SendsStop_any(op, status) == op = "stop"

\* main, line 122: `args.operation == "stop" and active_version_status == "Running"`
SendsStop(op, status) == op = "stop" /\ status = "Running"

\* main, lines 115-123 (98-105 of by_proejctid), with start_model_deployment
\* and stop_model_deployment: one model; the answer of the service is only
\* logged, a transport error is not caught
DeployModel ==
    /\ models_pc = "models"
    /\ model_idx <= Len(models)
    /\ LET model == models[model_idx]
           kind == IF SendsStart(operation, model.activeVersionStatus) THEN "start" ELSE "stop"
       IN  IF \/ SendsStart(operation, model.activeVersionStatus)
              \/ SendsStop(operation, model.activeVersionStatus)
             THEN \E outcome \in {"200", "status", "raised"} :
                    /\ model_requests' = Append(model_requests,
                           [kind |-> kind, model |-> model.id,
                            listed |-> model.activeVersionStatus, outcome |-> outcome])
                    /\ remote_models' = IF outcome = "200"
                                          THEN SetModelStatus(remote_models, model.id,
                                                   IF kind = "start" THEN "Running" ELSE "Stopped")
                                          ELSE remote_models
                    /\ models_pc' = IF outcome = "raised" THEN "crashed" ELSE "models"
             ELSE UNCHANGED <<model_requests, remote_models, models_pc>>
    /\ model_idx' = model_idx + 1
    /\ UNCHANGED <<script, models_api_key, operation, args_project_id, projects, project_idx,
                   models, fetched_models>>
    /\ UNCHANGED notModels

\* main, line 115: the models of the project are done
NextProject ==
    /\ models_pc = "models"
    /\ model_idx > Len(models)
    /\ project_idx' = project_idx + 1
    /\ models_pc' = "project"
    /\ UNCHANGED <<script, models_api_key, operation, args_project_id, remote_models,
                   projects, models, model_idx, fetched_models, model_requests>>
    /\ UNCHANGED notModels

\* main, line 104: the projects are done and main returns
ModelsEnd ==
    /\ models_pc = "project"
    /\ project_idx > Len(projects)
    /\ models_pc' = "done"
    /\ UNCHANGED <<script, models_api_key, operation, args_project_id, remote_models,
                   projects, project_idx, models, model_idx, fetched_models, model_requests>>
    /\ UNCHANGED notModels

ModelsNext ==
    \/ ModelsStart
    \/ FetchProjects
    \/ FetchModels
    \/ DeployModel
    \/ NextProject
    \/ ModelsEnd

InitModels ==
    ModelsInit /\ UsageIdle /\ OrgIdle /\ TagsIdle /\ ArchIdle
        /\ InvIdle /\ AppsIdle /\ GbpIdle

SpecModels == InitModels /\ [][ModelsNext]_vars

(***************************************************************************)
(* Properties of manage_model_api.py and manage_model_api_by_proejctid.py  *)
(***************************************************************************)

\* the ids of the models the requests were sent for, in order
RequestedModels == [i \in 1..Len(model_requests) |-> model_requests[i].model]

\* the ids of the fetched models, in order
FetchedIds(list) == [i \in 1..Len(list) |-> list[i].id]

FetchedRunning ==
    LET running(m) == m.activeVersionStatus = "Running"
    IN  SelectSeq(fetched_models, running)

\* C30: in both scripts stop sends a stop-deployment request only for models
\* whose active version status is "Running", start sends a start-deployment
\* request for every fetched model whatever its status, and show sends no
\* mutating request.
C30_StopOnlyRunningStartAll ==
    /\ \A i \in 1..Len(model_requests) :
          /\ model_requests[i].kind = "stop"
                => (operation = "stop" /\ model_requests[i].listed = "Running")
          /\ model_requests[i].kind = "start" => operation = "start"
    /\ operation = "show" => model_requests = <<>>
    /\ (models_pc = "done" /\ operation = "start")
          => RequestedModels = FetchedIds(fetched_models)
    /\ (models_pc = "done" /\ operation = "stop")
          => RequestedModels = FetchedIds(FetchedRunning)

C30_Witness ==
    /\ models_pc = "done"
    /\ script = "manage_model_api"
    /\ operation = "stop"
    /\ Len(fetched_models) = 3
    /\ Len(model_requests) = 2
    /\ \E i \in 1..Len(fetched_models) : fetched_models[i].activeVersionStatus = "Stopped"

====
